---- MODULE Spec2Model ----
(***************************************************************************)
(* Model of the return-prediction pipeline: the feature/sequence/split     *)
(* pipeline of GRUModel (src/gru.js), the return-only DataLoader and the   *)
(* guarded GRUModel of src/unnamed/part_001, and the training entry points *)
(* of StockPredictorApp (src/app.js).                                      *)
(*                                                                         *)
(* Numbers: ratios are the fractions k/RatioDen; every other number is an  *)
(* IEEE 754 double (a float32 where tf computes it), or NaN.               *)
(* Arrays are sequences; JavaScript's 0-based indices are shifted by one.  *)
(***************************************************************************)
EXTENDS Integers, Sequences, FiniteSets, TLC

\* ------------------------------------------------------------------ bounds
MaxRows == 12          \* longest feature matrix handed to prepareData
MaxLookback == 2       \* largest lookback / sequenceLength tried
MaxRatioNum == 21      \* ratios range over -MaxRatioNum/RatioDen .. MaxRatioNum/RatioDen
RatioDen == 20         \* denominator of the ratios (0.7 = 14/20, 0.15 = 3/20)
MaxReturns == 5        \* longest return series loaded into the DataLoader
MaxReturn == 2         \* returns are drawn from 0..MaxReturn
MaxCalls == 2          \* train calls made on the instance in one behaviour
MaxLifeCalls == 1      \* train calls in one life cycle
MaxLoads == 1          \* calls of loadAndPrepareData awaiting their file at a time
MaxEpochs == 2         \* largest epoch count a train call asks for
MaxLoss == 2           \* the capability reports MaxLoss different epoch logs
MaxWindow == 3         \* longest window handed to predictNextDays
MaxDays == 3           \* largest forecast horizon
MaxPred == 1           \* the capability predicts -MaxPred..MaxPred (normalized)
MaxEighths == 5        \* predictions scored for confidence: -MaxEighths/8..MaxEighths/8

\* ------------------------------------------------------------------ state
VARIABLES
    pc,              \* position of the driver of the specification at hand
    call,            \* the last call made and its arguments
    thrown,          \* message of the exception the last call raised, or "none"
    \* GRUModel of src/gru.js
    featureData,     \* the { X, y, dates } object handed to prepareData
    lookback,        \* this.lookback
    sequenceData,    \* this.sequenceData
    sequenceLabels,  \* this.sequenceLabels
    datasets,        \* what prepareData returned last
    \* DataLoader of src/unnamed/part_001
    data,            \* this.data
    stats,           \* this.stats
    processedData,   \* this.processedData
    loaderComplete,  \* dataLoader has the methods preprocessData and getStats,
                     \* which src/ does not define
    \* GRUModel of src/unnamed/part_001
    seqTensors,      \* what createSequences(returns, sequenceLength) returned last
    \* the training orchestrator: GRUModel.train of either class
    cls,             \* the class of the instance: "gru" (src/gru.js) or
                     \* "guarded" (src/unnamed/part_001)
    model,           \* this.model is set
    isTraining,      \* this.isTraining (guarded class only)
    history,         \* this.trainingHistory (gru) / this.history (guarded)
    writers,         \* for each history entry, the train call whose epoch wrote it
    fit,             \* the model.fit call in flight on this.model, or Null
    orphans,         \* the model.fit calls in flight on models this.model has
                     \* stopped referring to, oldest first
    stopAsked,       \* the capability has been asked to stop after this epoch
    runs,            \* one record per train call made, in call order
    callbackLog,     \* the calls received by the onEpochEnd supplied to the latest fit
    stopIssued,      \* the stop request the application issued, or Null
    \* forecasting with the GRUModel of src/unnamed/part_001
    dataStats,       \* this.dataStats
    lastSequence,    \* the window handed to predictNextDays
    forecast,        \* what predictNextDays returned last, with the windows
                     \* model.predict was given and the values it returned
    \* the life cycle of an instance
    disposedModel,   \* the tf model this.model refers to has been disposed
    result,          \* [value |-> what the last call returned], or Null
    normalizedWith,  \* the statistics the windows of processedData were
                     \* normalized with (history variable)
    \* StockPredictorApp of src/app.js
    app,             \* its fields, the state of its buttons, and the calls of
                     \* loadAndPrepareData that await their file
    fitArgs,         \* what each call of the capability's fit received, in call
                     \* order (history variable)
    \* the standardizer of GRUModel (src/gru.js)
    featureMeans,    \* this.featureMeans, or Null before the first fit
    featureStds,     \* this.featureStds, or Null before the first fit
    held,            \* the normalized array the caller holds, with the input
                     \* and the statistics it came from, or Null
    firstFit         \* the means and deviations the first fit on the
                     \* instance computed (history), or Null

gruVars == <<featureData, lookback, sequenceData, sequenceLabels, datasets>>
loaderVars == <<data, stats, processedData, loaderComplete>>
trainVars == <<cls, model, isTraining, history, writers, fit, orphans, stopAsked,
               runs, callbackLog, stopIssued>>
forecastVars == <<dataStats, lastSequence, forecast>>
appVars == <<app, fitArgs>>
scalerVars == <<featureMeans, featureStds, held, firstFit>>
restVars == <<appVars, scalerVars>>
moreVars == <<disposedModel, result, normalizedWith, restVars>>
vars == <<pc, call, thrown, gruVars, loaderVars, seqTensors, trainVars, forecastVars,
          moreVars>>

Null == [null |-> TRUE]

\* The driver is at position p, or runs the life cycle of an instance, in
\* which every operation can be called at any time, or is the application,
\* which drives the orchestrator.
At(p) == pc = p \/ pc = "life" \/ (pc = "app" /\ p = "orchestrator")
Goto(p) == pc' = IF pc = "life" THEN "life" ELSE p

\* ------------------------------------------------------------- arithmetic
Min(a, b) == IF a < b THEN a ELSE b
Max(a, b) == IF a > b THEN a ELSE b
Abs(a) == IF a < 0 THEN -a ELSE a

\* Math.floor(n * ratio) for ratio = num / den, den > 0.
FloorMul(n, num, den) == (n * num) \div den

\* ------------------------------------------------- JavaScript numbers
\* A JavaScript number is an IEEE-754 binary64 value and a value of a tf
\* tensor is a binary32 value.  A finite value is kept as a sign, a
\* magnitude m and an exponent e, standing for (-1)^neg * m * 2^e, with m
\* either empty (zero) or of exactly Precision bits; a binary32 value has
\* its low bits zero.  The magnitude is an unbounded natural written as its
\* digits in base 2^15, least significant first, so that every machine
\* operation on digits stays within 32 bits.  NaN is the one other value
\* the modelled code can produce; overflow, subnormal values and the
\* infinities are outside the numbers used here.
Precision == 53
Precision32 == 24
Base == 2 ^ 15

NaN == [nan |-> TRUE]

\* Number of bits of 0 <= n < 2^31.
IntBitLen(n) == Cardinality({k \in 0..30 : 2 ^ k <= n})

BigDigit(a, i) == IF i >= 1 /\ i <= Len(a) THEN a[i] ELSE 0

\* The digits f[1], ..., f[n] as a sequence.
Digits(f) == f \o <<>>

\* The digits of a without its leading zeros: as many as there are
\* positions with a digit other than zero at or above them.
BigNorm(a) ==
    SubSeq(a, 1, Cardinality({i \in 1..Len(a) : \E j \in i..Len(a) : a[j] # 0}))

BigOfInt(n) == BigNorm(<<n % Base, (n \div Base) % Base, n \div (Base * Base)>>)

\* The number of the digit sums s: position i receives a carry when a lower
\* position overflows and every position in between is full.
BigCarries(s) ==
    Digits([i \in 1..(Len(s) + 1) |->
              IF \E j \in 1..(i - 1) :
                    /\ s[j] >= Base
                    /\ \A k \in (j + 1)..(i - 1) : s[k] = Base - 1
              THEN 1 ELSE 0])
BigCarried(s, carry) ==
    BigNorm(Digits([i \in 1..(Len(s) + 1) |->
                      IF i <= Len(s) THEN (s[i] + carry[i]) % Base ELSE carry[i]]))
BigSum(s) == BigCarried(s, BigCarries(s))

BigAdd(a, b) ==
    BigSum(Digits([i \in 1..Max(Len(a), Len(b)) |-> BigDigit(a, i) + BigDigit(b, i)]))

\* The number of the digit differences d, none below -Base.
BigBorrows(d) ==
    Digits([i \in 1..Len(d) |->
              IF \E j \in 1..(i - 1) :
                    /\ d[j] < 0
                    /\ \A k \in (j + 1)..(i - 1) : d[k] = 0
              THEN 1 ELSE 0])
BigBorrowed(d, borrow) ==
    BigNorm(Digits([i \in 1..Len(d) |-> (d[i] - borrow[i]) % Base]))
BigDifference(d) == BigBorrowed(d, BigBorrows(d))

\* a - b for a >= b.
BigSub(a, b) == BigDifference(Digits([i \in 1..Len(a) |-> a[i] - BigDigit(b, i)]))

\* -1, 0 or 1 as a < b, a = b or a > b.
BigCmpAt(a, b, top) == IF top = 0 THEN 0 ELSE IF a[top] < b[top] THEN -1 ELSE 1
BigCmp(a, b) ==
    IF Len(a) # Len(b) THEN (IF Len(a) < Len(b) THEN -1 ELSE 1)
    ELSE BigCmpAt(a, b, Cardinality({i \in 1..Len(a) : \E j \in i..Len(a) : a[j] # b[j]}))

\* a * k for 0 <= k <= Base.
BigMulSmall(a, k) ==
    BigAdd(Digits([i \in 1..Len(a) |-> (a[i] * k) % Base]),
           Digits([i \in 1..(Len(a) + 1) |-> IF i = 1 THEN 0 ELSE (a[i - 1] * k) \div Base]))

BigShlDigits(a, n) == IF Len(a) = 0 THEN <<>> ELSE [i \in 1..n |-> 0] \o a

RECURSIVE BigMul(_, _)
BigMul(a, b) ==
    IF Len(b) = 0 THEN <<>>
    ELSE BigAdd(BigMulSmall(a, Head(b)), BigShlDigits(BigMul(a, Tail(b)), 1))

\* a * 2^k and floor(a / 2^k).
BigShl(a, k) ==
    BigNorm(Digits([i \in 1..(Len(a) + k \div 15 + 1) |->
                      ((BigDigit(a, i - k \div 15) * 2 ^ (k % 15)) % Base)
                        + ((BigDigit(a, i - k \div 15 - 1) * 2 ^ (k % 15)) \div Base)]))
BigShr(a, k) ==
    BigNorm(Digits([i \in 1..(Len(a) - k \div 15) |->
                      (a[i + k \div 15] \div 2 ^ (k % 15))
                        + (BigDigit(a, i + k \div 15 + 1) % 2 ^ (k % 15)) * 2 ^ (15 - (k % 15))]))

BigBitLen(a) == IF Len(a) = 0 THEN 0 ELSE 15 * (Len(a) - 1) + IntBitLen(a[Len(a)])

\* Bit k of a, and whether a bit below bit k is set.
BigBit(a, k) == (BigDigit(a, k \div 15 + 1) \div 2 ^ (k % 15)) % 2
BigAnyBelow(a, k) ==
    \E i \in 1..Len(a) :
        IF i <= k \div 15 THEN a[i] # 0
        ELSE i = k \div 15 + 1 /\ a[i] % 2 ^ (k % 15) # 0

\* One digit of a long division: for r < v * Base and a divisor v of n
\* digits whose top digit is at least Base / 2, the estimate from the two
\* top digits of r exceeds the digit by two at most; p is v * q.
BigDivEstimate(r, v) ==
    Min((BigDigit(r, Len(v) + 1) * Base + BigDigit(r, Len(v))) \div v[Len(v)], Base - 1)

RECURSIVE BigDivFit(_, _, _, _)
BigDivFit(r, v, q, p) ==
    IF BigCmp(p, r) <= 0 THEN [q |-> q, r |-> BigSub(r, p)]
    ELSE BigDivFit(r, v, q - 1, BigMulSmall(v, q - 1))

BigDivDigit(r, v) ==
    BigDivFit(r, v, BigDivEstimate(r, v), BigMulSmall(v, BigDivEstimate(r, v)))

\* Long division of the digits st.u still to bring down, most significant
\* first, with the remainder st.r and the quotient digits st.q so far; d is
\* the digit just divided.
BigDivStep(st, d) ==
    [u |-> SubSeq(st.u, 1, Len(st.u) - 1), r |-> d.r, q |-> <<d.q>> \o st.q]

RECURSIVE BigDivLoop(_, _)
BigDivLoop(st, v) ==
    IF Len(st.u) = 0 THEN [q |-> BigNorm(st.q), r |-> st.r]
    ELSE BigDivLoop(BigDivStep(st, BigDivDigit(BigNorm(<<st.u[Len(st.u)]>> \o st.r), v)), v)

BigDivShifted(u, v) ==
    LET k == Max(Len(u) - (Len(v) - 1), 0)
    IN  BigDivLoop([u |-> SubSeq(u, 1, k), r |-> BigNorm(SubSeq(u, k + 1, Len(u))),
                    q |-> <<>>], v)

\* The quotient q of a by b # 0, and in r the remainder of the division
\* after both are shifted to fill the top digit of b: zero exactly when
\* the remainder of a by b is.
BigDivMod(a, b) ==
    BigDivShifted(BigShl(a, 15 - IntBitLen(b[Len(b)])),
                  BigShl(b, 15 - IntBitLen(b[Len(b)])))

\* Newton's iteration for floor(sqrt(n)) from x > 0 with x >= floor(sqrt(n));
\* y is the iterate after x.
RECURSIVE BigSqrtFrom(_, _)
RECURSIVE BigSqrtNext(_, _, _)
BigSqrtNext(n, x, y) == IF BigCmp(y, x) >= 0 THEN x ELSE BigSqrtFrom(n, y)
BigSqrtFrom(n, x) == BigSqrtNext(n, x, BigShr(BigAdd(x, BigDivMod(n, x).q), 1))

\* floor(sqrt(t)) for t < 2^16, and the number a < 2^30 as an integer.
IntSqrt(t) == CHOOSE k \in 0..256 : k * k <= t /\ t < (k + 1) * (k + 1)
BigLow(a) == BigDigit(a, 1) + BigDigit(a, 2) * Base

\* floor(sqrt(n)): the iteration starts above the root, from the root of
\* the top bits of n.
BigSqrt(n) ==
    IF Len(n) = 0 THEN <<>>
    ELSE LET sh == 2 * ((Max(BigBitLen(n) - 16, 0) + 1) \div 2)
         IN  BigSqrtFrom(n, BigShl(BigOfInt(IntSqrt(BigLow(BigShr(n, sh))) + 1),
                                   sh \div 2))

DblZero == [neg |-> FALSE, m |-> <<>>, e |-> 0]

\* The value (-1)^neg * n * 2^e for n of at most Precision + 1 bits.
DblExact(neg, n, e) ==
    LET up == Precision - BigBitLen(n)
    IN  IF Len(n) = 0 THEN DblZero
        ELSE [neg |-> neg,
              m |-> IF up >= 0 THEN BigShl(n, up) ELSE BigShr(n, -up),
              e |-> e - up]

\* n without its d low bits, rounded to nearest, ties to even; sticky says
\* that the number rounded is above n.
BigRound(n, d, sticky) ==
    IF d <= 0 THEN n
    ELSE IF /\ BigBit(n, d - 1) = 1
            /\ (sticky \/ BigBit(n, d) = 1 \/ BigAnyBelow(n, d - 1))
    THEN BigAdd(BigShr(n, d), <<1>>)
    ELSE BigShr(n, d)

\* (-1)^neg * x rounded to p bits, ties to even, for n * 2^e <= x < (n + 1) * 2^e,
\* where x > n * 2^e exactly when sticky; with sticky, n has more than
\* p + 1 bits.
FltRound(p, neg, n, e, sticky) ==
    DblExact(neg, BigRound(n, BigBitLen(n) - p, sticky), e + Max(BigBitLen(n) - p, 0))

\* The exact sum of two finite values, not rounded: x and y are the
\* magnitudes over the common exponent e.
ExactAligned(aneg, bneg, x, y, e) ==
    IF aneg = bneg THEN [neg |-> aneg, m |-> BigAdd(x, y), e |-> e]
    ELSE IF BigCmp(x, y) = 0 THEN DblZero
    ELSE IF BigCmp(x, y) > 0 THEN [neg |-> aneg, m |-> BigSub(x, y), e |-> e]
    ELSE [neg |-> bneg, m |-> BigSub(y, x), e |-> e]

ExactAdd(a, b) ==
    ExactAligned(a.neg, b.neg, BigShl(a.m, a.e - Min(a.e, b.e)),
                 BigShl(b.m, b.e - Min(a.e, b.e)), Min(a.e, b.e))

DblNeg(a) == IF a = NaN \/ Len(a.m) = 0 THEN a ELSE [a EXCEPT !.neg = ~a.neg]
DblAbs(a) == IF a = NaN THEN a ELSE [a EXCEPT !.neg = FALSE]

\* The double nearest to an exact value.
DblRound(x) == FltRound(Precision, x.neg, x.m, x.e, FALSE)

\* JavaScript's +, -, * and / on numbers.
DblAdd(a, b) == IF a = NaN \/ b = NaN THEN NaN ELSE DblRound(ExactAdd(a, b))

DblSub(a, b) == DblAdd(a, DblNeg(b))

DblMul(a, b) ==
    IF a = NaN \/ b = NaN THEN NaN
    ELSE IF Len(a.m) = 0 \/ Len(b.m) = 0 THEN DblZero
    ELSE FltRound(Precision, a.neg # b.neg, BigMul(a.m, b.m), a.e + b.e, FALSE)

\* a / b for b # 0, and 0 / 0; dm is the division of the magnitudes.
DblQuotient(neg, dm, e) == FltRound(Precision, neg, dm.q, e, Len(dm.r) # 0)
DblDiv(a, b) ==
    IF a = NaN \/ b = NaN \/ (Len(a.m) = 0 /\ Len(b.m) = 0) THEN NaN
    ELSE IF Len(a.m) = 0 THEN DblZero
    ELSE DblQuotient(a.neg # b.neg, BigDivMod(BigShl(a.m, Precision + 3), b.m),
                     a.e - b.e - (Precision + 3))

\* Math.sqrt: the root of m * 2^e is the root of (m * 2^s) * 2^(e - s) for
\* an s that makes e - s even and leaves the integer root more than
\* Precision + 1 bits.
sqrtRounded(n, root, e) ==
    FltRound(Precision, FALSE, root, e, BigCmp(BigMul(root, root), n) # 0)
sqrtScaled(n, e) == sqrtRounded(n, BigSqrt(n), e)
mathSqrt64(a) ==
    IF a = NaN THEN NaN
    ELSE IF Len(a.m) = 0 THEN DblZero
    ELSE IF a.neg THEN NaN
    ELSE LET s == Precision + 4 + ((a.e - Precision) % 2)
         IN  sqrtScaled(BigShl(a.m, s), (a.e - s) \div 2)

\* a < b on finite values.
DblNegative(x) == x.neg /\ Len(x.m) # 0
DblLess(a, b) == DblNegative(ExactAdd(a, DblNeg(b)))

\* The number an integer, or the fraction n/d, evaluates to.
DblOfInt(n) == DblExact(n < 0, BigOfInt(Abs(n)), 0)
DblOfRat(r) == DblDiv(DblOfInt(r[1]), DblOfInt(r[2]))

\* Math.floor of a finite number below 2^30 in magnitude, as an integer.
mathFloor(x) ==
    IF Len(x.m) = 0 THEN 0
    ELSE IF x.e >= 0 THEN (IF x.neg THEN -1 ELSE 1) * BigLow(BigShl(x.m, x.e))
    ELSE IF x.neg
    THEN -BigLow(BigShr(x.m, -x.e)) - (IF BigAnyBelow(x.m, -x.e) THEN 1 ELSE 0)
    ELSE BigLow(BigShr(x.m, -x.e))

\* Math.fround: the binary32 value nearest to a number, which is what a
\* tensor keeps of it.
Float32(a) ==
    IF a = NaN THEN NaN ELSE FltRound(Precision32, a.neg, a.m, a.e, FALSE)

\* |a| <= |b| * 2^k for exact sums a and b.
DblAbsLeqScaled(a, b, k) ==
    LET e == Min(a.e, b.e + k)
    IN  BigCmp(BigShl(a.m, a.e - e), BigShl(b.m, b.e + k - e)) <= 0

\* ----------------------------------------------------------------- arrays
\* Array.prototype.slice(start, end): negative indices count from the end,
\* both are clamped to 0..length, an empty range gives the empty array.
SliceIdx(i, n) == IF i < 0 THEN Max(n + i, 0) ELSE Min(i, n)

Slice(s, start, end) ==
    LET from == SliceIdx(start, Len(s))
        to == SliceIdx(end, Len(s))
    IN  IF from >= to THEN <<>> ELSE SubSeq(s, from + 1, to)

SliceFrom(s, start) == Slice(s, start, Len(s))

\* ------------------------------------------------- GRUModel of src/gru.js
\* Variant: the target is taken at the start of the window.
createSequencesTargetAtStart(X, y, lb) ==
    LET n == Max(Len(X) - lb, 0)
    IN  [ X |-> [i \in 1..n |-> Slice(X, i - 1, i - 1 + lb)],
          y |-> [i \in 1..n |-> y[i]] ]

\* createSequences(X, y, lookback): one window per start index i with
\* i < X.length - lookback, paired with y[i + lookback].
createSequences(X, y, lb) ==
    LET n == Max(Len(X) - lb, 0)
    IN  [ X |-> [i \in 1..n |-> Slice(X, i - 1, i - 1 + lb)],
          y |-> [i \in 1..n |-> y[i + lb]] ]

\* Variant: the validation cut is the floor of the summed ratios.
splitDataFloorOfSum(sequences, trainNum, valNum) ==
    LET n == Len(sequences.X)
        trainEnd == FloorMul(n, trainNum, RatioDen)
        valEnd == FloorMul(n, trainNum + valNum, RatioDen)
    IN  [ X_train |-> Slice(sequences.X, 0, trainEnd),
          y_train |-> Slice(sequences.y, 0, trainEnd),
          X_val |-> Slice(sequences.X, trainEnd, valEnd),
          y_val |-> Slice(sequences.y, trainEnd, valEnd),
          X_test |-> SliceFrom(sequences.X, valEnd),
          y_test |-> SliceFrom(sequences.y, valEnd) ]

\* The partitions prepareData cuts out of the sequences.
splitData(sequences, trainNum, valNum) ==
    LET n == Len(sequences.X)
        trainEnd == FloorMul(n, trainNum, RatioDen)
        valEnd == trainEnd + FloorMul(n, valNum, RatioDen)
    IN  [ X_train |-> Slice(sequences.X, 0, trainEnd),
          y_train |-> Slice(sequences.y, 0, trainEnd),
          X_val |-> Slice(sequences.X, trainEnd, valEnd),
          y_val |-> Slice(sequences.y, trainEnd, valEnd),
          X_test |-> SliceFrom(sequences.X, valEnd),
          y_test |-> SliceFrom(sequences.y, valEnd) ]

\* prepareData(featureData, lookback, trainRatio, valRatio)
PrepareData(lb, trainNum, valNum) ==
    /\ At("ready")
    /\ featureData # Null
    /\ LET sequences == createSequences(featureData.X, featureData.y, lb)
           parts == splitData(sequences, trainNum, valNum)
       IN  /\ lookback' = lb
           /\ sequenceData' = sequences.X
           /\ sequenceLabels' = sequences.y
           /\ datasets' = [ X_train |-> parts.X_train, y_train |-> parts.y_train,
                            X_val |-> parts.X_val, y_val |-> parts.y_val,
                            X_test |-> parts.X_test, y_test |-> parts.y_test,
                            dates |-> SliceFrom(featureData.dates, lb) ]
    /\ call' = [op |-> "prepareData", lookback |-> lb,
                trainNum |-> trainNum, valNum |-> valNum]
    /\ thrown' = "none"
    /\ Goto("prepared")
    /\ UNCHANGED <<moreVars, featureData, loaderVars, seqTensors, trainVars, forecastVars>>

\* ------------------------------------- DataLoader of src/unnamed/part_001
\* A return is a number.  The series of a file: at most MaxReturns returns
\* of 0% to MaxReturn * 100%, none above the one before it.
ReturnSeries ==
    { [i \in 1..Len(r) |-> DblOfInt(r[i])] :
        r \in { s \in UNION { [1..L -> 0..MaxReturn] : L \in 0..MaxReturns } :
                  \A i \in 1..(Len(s) - 1) : s[i] >= s[i + 1] } }

\* Series [m - s, m + s], whose mean is m and whose standard deviation is s.
ScaleSeries ==
    { <<DblOfInt(m - s), DblOfInt(m + s)>> : m \in {25, 26}, s \in {0, 1, 25} }

\* What generateSyntheticData(days) can draw for days = 1 and days = 3.
SyntheticSeries == { <<>>, <<DblOfRat(<<-1, 256>>), DblOfRat(<<3, 1000>>)>> }

\* The values handed to normalizeReturns, one or two at a time.
ScaleValues == { DblOfInt(x) : x \in {-7, 0, 1, 7} }
ScaleInputs == { <<x>> : x \in ScaleValues } \cup { <<DblOfInt(7), DblZero>> }

\* table[key] for a key the table holds, where it is the value.
Cached(table, key, value) == IF key \in DOMAIN table THEN table[key] ELSE value

InitialStats == [mean |-> DblZero, std |-> DblOfInt(1)]

\* s.reduce((a, b) => a + b, 0)
RECURSIVE reduceSum(_)
reduceSum(s) ==
    IF Len(s) = 0 THEN DblZero
    ELSE DblAdd(reduceSum(SubSeq(s, 1, Len(s) - 1)), s[Len(s)])

Mean(returns) == DblDiv(reduceSum(returns), DblOfInt(Len(returns)))

\* The mean of the squaredDiffs, Math.pow(r - mean, 2) being (r - mean) * (r - mean).
Variance(returns) ==
    LET mean == Mean(returns)
        squaredDiffs == Digits([i \in 1..Len(returns) |->
                            DblMul(DblSub(returns[i], mean), DblSub(returns[i], mean))])
    IN  DblDiv(reduceSum(squaredDiffs), DblOfInt(Len(returns)))

\* The mean and the standard deviation calculateStatistics() stores for a
\* series that is not empty; those of the series above are computed once.
statisticsOf(returns) ==
    [mean |-> Mean(returns), std |-> mathSqrt64(Variance(returns))]

computedStatistics ==
    [returns \in (ReturnSeries \cup ScaleSeries \cup SyntheticSeries) \ {<<>>} |->
        statisticsOf(returns)]

\* calculateStatistics(): leaves the statistics alone on an empty series.
calculateStatistics(returns, old) ==
    IF Len(returns) = 0 THEN old
    ELSE Cached(computedStatistics, returns, statisticsOf(returns))

safeStd(st) == IF st.std = DblZero THEN DblOfInt(1) ELSE st.std

\* The statistics this.stats holds after the series above.
ScaleStatistics ==
    {InitialStats}
        \cup { computedStatistics[r] : r \in (ScaleSeries \cup SyntheticSeries) \ {<<>>} }

\* (r - mean) / safeStd, computed once for the returns and the statistics of
\* the series above.
normalizeReturn(r, st) == DblDiv(DblSub(r, st.mean), safeStd(st))

normalizedReturn ==
    [p \in (ScaleValues \X ScaleStatistics)
            \cup UNION { { <<returns[i], computedStatistics[returns]>> :
                              i \in 1..Len(returns) } :
                           returns \in DOMAIN computedStatistics } |->
        normalizeReturn(p[1], p[2])]

\* normalizeReturns(returns): (r - mean) / safeStd with the stored statistics.
normalizeReturns(returns, st) ==
    [i \in 1..Len(returns) |->
        Cached(normalizedReturn, <<returns[i], st>>, normalizeReturn(returns[i], st))]

\* r * safeStd + mean, computed once for what normalizeReturns gives on the
\* values above.
denormalizeReturn(r, st) == DblAdd(DblMul(r, safeStd(st)), st.mean)

denormalizedReturn ==
    [p \in { normalizedReturn[q] : q \in ScaleValues \X ScaleStatistics }
            \X ScaleStatistics |->
        denormalizeReturn(p[1], p[2])]

\* Variant: the inverse multiplies by this.stats.std as it is stored.
denormalizeReturnsRawStd(normalized, st) ==
    [i \in 1..Len(normalized) |-> DblAdd(DblMul(normalized[i], st.std), st.mean)]

\* denormalizeReturns(normalized): r * safeStd + mean with the stored statistics.
denormalizeReturns(normalized, st) ==
    [i \in 1..Len(normalized) |->
        Cached(denormalizedReturn, <<normalized[i], st>>,
               denormalizeReturn(normalized[i], st))]

\* The windows and the three partitions prepareSequences builds.
sequencesOf(series, sequenceLength) ==
    LET n == Max(Len(series) - sequenceLength, 0)
    IN  [ xs |-> [i \in 1..n |-> Slice(series, i - 1, i - 1 + sequenceLength)],
          ys |-> [i \in 1..n |-> series[i + sequenceLength]] ]

\* Neither splitter checks its ratios: negative ones and ones above 1 are
\* accepted like any other number.
Ratios == (-MaxRatioNum)..MaxRatioNum

\* Math.floor(totalSamples * (trainRatio + (1 - trainRatio) / 2)), in
\* doubles: for 5 samples and the ratio -0.2 the factor is
\* 0.39999999999999997 and the cut is 1, not 2.
validationRatio(trainRatio) ==
    DblAdd(trainRatio, DblDiv(DblSub(DblOfInt(1), trainRatio), DblOfInt(2)))
validationEnd(totalSamples, trainNum) ==
    mathFloor(DblMul(DblOfInt(totalSamples),
                     validationRatio(DblOfRat(<<trainNum, RatioDen>>))))

\* The validation cut for each number of samples and each ratio, computed
\* once.
validationEnds ==
    [p \in { <<n, k>> : n \in 0..MaxReturns, k \in Ratios } |->
        validationEnd(p[1], p[2])]

splitSequences(returns, normalized, sequenceLength, trainNum) ==
    LET seqs == sequencesOf(normalized, sequenceLength)
        totalSamples == Len(seqs.xs)
        trainEnd == FloorMul(totalSamples, trainNum, RatioDen)
        valEnd == Cached(validationEnds, <<totalSamples, trainNum>>,
                         validationEnd(totalSamples, trainNum))
    IN  [ train |-> [xs |-> Slice(seqs.xs, 0, trainEnd), ys |-> Slice(seqs.ys, 0, trainEnd)],
          val |-> [xs |-> Slice(seqs.xs, trainEnd, valEnd),
                   ys |-> Slice(seqs.ys, trainEnd, valEnd)],
          test |-> [xs |-> SliceFrom(seqs.xs, valEnd), ys |-> SliceFrom(seqs.ys, valEnd),
                    originalReturns |-> SliceFrom(returns, valEnd + sequenceLength)],
          lastSequence |-> SliceFrom(normalized, -sequenceLength),
          sequenceLength |-> sequenceLength,
          normalizedReturns |-> normalized ]

\* `Sequence length (${sequenceLength}) must be less than total samples (${n})`
sequenceLengthMessage(sequenceLength, n) ==
    "Sequence length (" \o ToString(sequenceLength)
        \o ") must be less than total samples (" \o ToString(n) \o ")"

\* prepareSequences(sequenceLength, trainRatio)
PrepareSequences(sequenceLength, trainNum) ==
    /\ At("loaded")
    /\ IF data = Null \/ Len(data.returns) = 0
       THEN /\ thrown' = "No data loaded"
            /\ UNCHANGED <<processedData, normalizedWith>>
       ELSE IF sequenceLength >= Len(data.returns)
       THEN /\ thrown' = sequenceLengthMessage(sequenceLength, Len(data.returns))
            /\ UNCHANGED <<processedData, normalizedWith>>
       ELSE /\ thrown' = "none"
            /\ processedData' = splitSequences(data.returns,
                                    normalizeReturns(data.returns, stats),
                                    sequenceLength, trainNum)
            /\ normalizedWith' = stats
    /\ call' = [op |-> "prepareSequences", sequenceLength |-> sequenceLength,
                trainNum |-> trainNum]
    /\ Goto("sequenced")
    /\ UNCHANGED <<restVars, disposedModel, result, data, stats, loaderComplete, gruVars,
                   seqTensors, trainVars, forecastVars>>

\* ------------------------------------- GRUModel of src/unnamed/part_001
\* createSequences(returns, sequenceLength): the windows and targets that
\* are handed to tf.tensor3d / tf.tensor2d, with the tensors' shapes.
createSequencesOfReturns(returns, sequenceLength) ==
    LET n == Max(Len(returns) - sequenceLength, 0)
        xs == [i \in 1..n |-> Slice(returns, i - 1, i - 1 + sequenceLength)]
        ys == [i \in 1..n |-> returns[i + sequenceLength]]
    IN  [ xs |-> xs, xsShape |-> <<Len(xs), sequenceLength, 1>>,
          ys |-> ys, ysShape |-> <<Len(ys), 1>> ]

CreateSequences(sequenceLength) ==
    /\ pc = "loaded"
    /\ data # Null
    /\ seqTensors' = createSequencesOfReturns(data.returns, sequenceLength)
    /\ call' = [op |-> "createSequences", sequenceLength |-> sequenceLength]
    /\ thrown' = "none"
    /\ pc' = "windowed"
    /\ UNCHANGED <<moreVars, gruVars, loaderVars, trainVars, forecastVars>>

\* ------------------------------------------------------------ input sets
Lookbacks == 0..MaxLookback

\* Feature matrices: row i is the row with identity i, or rows that repeat
\* with period two; the target of row i is told apart from every row.
FeatureInputs ==
    { [ X |-> [i \in 1..L |-> IF distinct THEN i ELSE i % 2],
        y |-> [i \in 1..L |-> 100 + i],
        dates |-> [i \in 1..L |-> 1000 + i] ] :
      L \in 0..MaxRows, distinct \in BOOLEAN }

EmptyHistory == [loss |-> <<>>, val_loss |-> <<>>, epochs |-> <<>>]

Classes == {"gru", "guarded"}

TrainIdle ==
    /\ model = FALSE
    /\ isTraining = FALSE
    /\ history = EmptyHistory
    /\ writers = <<>>
    /\ fit = Null
    /\ orphans = <<>>
    /\ stopAsked = FALSE
    /\ runs = <<>>
    /\ callbackLog = <<>>
    /\ stopIssued = Null

InitialDataStats ==
    [mean |-> DblZero, std |-> DblOfInt(1), min |-> DblZero, max |-> DblOfInt(1)]

ForecastIdle ==
    /\ dataStats = InitialDataStats
    /\ lastSequence = Null
    /\ forecast = Null

AppIdle ==
    /\ app = Null
    /\ fitArgs = <<>>

ScalerIdle ==
    /\ featureMeans = Null
    /\ featureStds = Null
    /\ held = Null
    /\ firstFit = Null

MoreIdle ==
    /\ disposedModel = FALSE
    /\ result = Null
    /\ normalizedWith = Null
    /\ AppIdle
    /\ ScalerIdle

GruIdle ==
    /\ lookback = 60
    /\ sequenceData = Null
    /\ sequenceLabels = Null
    /\ datasets = Null

LoaderIdle ==
    /\ data = Null
    /\ stats = InitialStats
    /\ processedData = Null
    /\ loaderComplete = FALSE

\* --------------------------------------------------- training orchestrator
\* GRUModel.train of src/gru.js (no guard) and of src/unnamed/part_001
\* (guarded by isTraining), around the capability's fit.  The capability is
\* tf.LayersModel.fit: it runs the epochs in order, awaits onEpochEnd after
\* each, resolves after the last epoch or once it has been asked to stop,
\* may fail during any epoch, and refuses a fit while another fit of the
\* same model is going on.
\* buildModel(): this.model is replaced, also while the model it replaces
\* is being fitted (the guarded class disposes that model first); the fit
\* goes on without the instance referring to its model.
BuildModel ==
    /\ At("orchestrator")
    /\ model' = TRUE
    /\ disposedModel' = FALSE
    /\ orphans' = IF fit = Null THEN orphans ELSE Append(orphans, fit)
    /\ fit' = Null
    /\ thrown' = "none"
    /\ UNCHANGED <<restVars, result, normalizedWith, pc, call, gruVars, loaderVars, seqTensors, forecastVars, cls, isTraining, history, writers,
                   stopAsked, runs, callbackLog, stopIssued>>

\* The number of train calls whose fit is in flight.
InFlight == (IF fit = Null THEN 0 ELSE 1) + Len(orphans)

\* The record kept of one train call.  error is what the returned promise
\* was rejected with: the message, and the history attached to the error.
RunRecord(status, inFlight, message) ==
    [ status |-> status, done |-> 0, inFlight |-> inFlight,
      error |-> IF message = "none" THEN Null
                ELSE [message |-> message, history |-> Null] ]

\* The guard at the head of train: only the guarded class has one.
alreadyTraining(c, flag) == c = "guarded" /\ flag

\* Whether train starts with a usable model (gru.js checks it up front,
\* the guarded class fails on this.model.fit inside its try block).
trainOutcome(c, built, busy) ==
    IF ~built
    THEN IF c = "gru" THEN "Model must be built before training"
         ELSE "TypeError: Cannot read properties of null (reading 'fit')"
    ELSE IF busy THEN "Cannot start training because another fit() call is ongoing."
    ELSE "none"

\* train(...) up to its await of model.fit.
TrainCall(epochs, hasCallback) ==
    /\ At("orchestrator")
    /\ Len(runs) < MaxCalls
    /\ LET run == Len(runs) + 1
           outcome == IF disposedModel /\ fit = Null
                      THEN "LayersVariable is already disposed"
                      ELSE trainOutcome(cls, model, fit # Null)
       IN  IF alreadyTraining(cls, isTraining)
           THEN /\ runs' = Append(runs, RunRecord("rejected", InFlight > 0,
                                                  "Model is already training"))
                /\ thrown' = "Model is already training"
                /\ UNCHANGED <<isTraining, history, writers, fit, callbackLog>>
           ELSE IF cls = "gru" /\ ~model
           THEN /\ runs' = Append(runs, RunRecord("rejected", InFlight > 0, outcome))
                /\ thrown' = outcome
                /\ UNCHANGED <<isTraining, history, writers, fit, callbackLog>>
           ELSE /\ history' = EmptyHistory
                /\ writers' = <<>>
                /\ IF outcome = "none"
                   THEN /\ fit' = [run |-> run, epochs |-> epochs, epoch |-> 0,
                                   hasCallback |-> hasCallback]
                        /\ isTraining' = (cls = "guarded")
                        /\ runs' = Append(runs, RunRecord("fitting", InFlight > 0, "none"))
                        /\ thrown' = "none"
                        /\ callbackLog' = <<>>
                   ELSE /\ isTraining' = FALSE
                        /\ runs' = Append(runs, RunRecord("failed", InFlight > 0, outcome))
                        /\ thrown' = outcome
                        /\ UNCHANGED <<fit, callbackLog>>
    /\ UNCHANGED <<moreVars, pc, call, gruVars, loaderVars, seqTensors, forecastVars, cls, model, orphans,
                   stopAsked, stopIssued>>

\* Variant of the epoch handler: the validation loss is stored as the loss.
pushEpochSwapped(h, c, epoch, logs) ==
    [ loss |-> Append(h.loss, logs.val_loss),
      val_loss |-> Append(h.val_loss, logs.val_loss),
      epochs |-> IF c = "guarded" THEN Append(h.epochs, epoch + 1) ELSE h.epochs ]

\* onEpochEnd's pushes onto the history of the instance.
pushEpoch(h, c, epoch, logs) ==
    [ loss |-> Append(h.loss, logs.loss),
      val_loss |-> Append(h.val_loss, logs.val_loss),
      epochs |-> IF c = "guarded" THEN Append(h.epochs, epoch + 1) ELSE h.epochs ]

\* onEpochEnd's call of the caller-supplied callback, when there is one.
callUser(log, hasCallback, run, epoch, logs) ==
    IF hasCallback
    THEN Append(log, [run |-> run, epoch |-> epoch, loss |-> logs.loss,
                      val_loss |-> logs.val_loss])
    ELSE log

Logs == { [loss |-> l, val_loss |-> 10 + l] : l \in 1..MaxLoss }
\* The logs of the epochs of the life cycle, of the application and of the
\* fits on replaced models.
LifeLogs == { l \in Logs : l.loss = 1 }

\* The capability finishes an epoch and awaits the onEpochEnd handler.
EpochEnd(logs) ==
    /\ At("orchestrator")
    /\ fit # Null
    /\ fit.epoch < fit.epochs
    /\ ~stopAsked
    /\ history' = pushEpoch(history, cls, fit.epoch, logs)
    /\ writers' = Append(writers, fit.run)
    /\ callbackLog' = callUser(callbackLog, fit.hasCallback, fit.run, fit.epoch, logs)
    /\ fit' = [fit EXCEPT !.epoch = @ + 1]
    /\ runs' = [runs EXCEPT ![fit.run].done = @ + 1]
    /\ UNCHANGED <<orphans, moreVars, pc, call, thrown, gruVars, loaderVars, seqTensors, forecastVars, cls, model,
                   isTraining, stopAsked, stopIssued>>

\* model.fit resolves: train clears isTraining and returns the history.
FitResolve ==
    /\ At("orchestrator")
    /\ fit # Null
    /\ (fit.epoch = fit.epochs \/ stopAsked)
    /\ runs' = [runs EXCEPT ![fit.run].status = "resolved"]
    /\ isTraining' = FALSE
    /\ fit' = Null
    /\ UNCHANGED <<orphans, moreVars, pc, call, thrown, gruVars, loaderVars, seqTensors, forecastVars, cls, model,
                   history, writers, stopAsked, callbackLog, stopIssued>>

\* Variant: the catch block rethrows without clearing the flag.
FitFailKeepsFlag ==
    /\ At("orchestrator")
    /\ fit # Null
    /\ fit.epoch < fit.epochs
    /\ runs' = [runs EXCEPT ![fit.run].status = "failed",
                            ![fit.run].error = [message |-> "fit failed",
                                                history |-> Null]]
    /\ fit' = Null
    /\ UNCHANGED <<orphans, moreVars, pc, call, thrown, gruVars, loaderVars, seqTensors, forecastVars, cls, model,
                   isTraining, history, writers, stopAsked, callbackLog, stopIssued>>

\* model.fit rejects during an epoch: train rethrows what it caught.
FitFail ==
    /\ At("orchestrator")
    /\ fit # Null
    /\ fit.epoch < fit.epochs
    /\ runs' = [runs EXCEPT ![fit.run].status = "failed",
                            ![fit.run].error = [message |-> "fit failed",
                                                history |-> Null]]
    /\ isTraining' = FALSE
    /\ fit' = Null
    /\ UNCHANGED <<orphans, moreVars, pc, call, thrown, gruVars, loaderVars, seqTensors, forecastVars, cls, model,
                   history, writers, stopAsked, callbackLog, stopIssued>>

\* StockPredictorApp.stopTraining(): its first statement calls
\* gruModel.stopTraining(), a method neither GRUModel class defines, so the
\* handler ends there with a TypeError and nothing reaches the capability.
StopTraining ==
    /\ At("orchestrator")
    /\ fit # Null
    /\ stopIssued = Null
    /\ stopIssued' = [run |-> fit.run, epoch |-> fit.epoch]
    /\ thrown' = "TypeError: gruModel.stopTraining is not a function"
    /\ UNCHANGED <<orphans, moreVars, pc, call, gruVars, loaderVars, seqTensors, forecastVars, cls, model, isTraining, history,
                   writers, fit, stopAsked, runs, callbackLog>>

\* The catch block of trainModel.
trainModelCatch(a) ==
    [a EXCEPT !.trainBtn = TRUE, !.predictBtn = FALSE, !.isModelTrained = FALSE]

\* The train call that started a fit last, or 0: the one whose onEpochEnd
\* callbackLog follows.
startedFit(run) ==
    \/ run.status \in {"fitting", "resolved"}
    \/ run.status = "failed" /\ run.error.message = "fit failed"

latestFit(rs) ==
    LET started == { r \in 1..Len(rs) : startedFit(rs[r]) }
    IN  IF started = {} THEN 0 ELSE CHOOSE r \in started : \A q \in started : q <= r

\* A fit on a replaced model finishes an epoch: its handler pushes onto the
\* history the instance holds now and calls the callback of its train call.
OrphanEpochEnd(i, logs) ==
    /\ At("orchestrator")
    /\ i \in 1..Len(orphans)
    /\ orphans[i].epoch < orphans[i].epochs
    /\ history' = pushEpoch(history, cls, orphans[i].epoch, logs)
    /\ writers' = Append(writers, orphans[i].run)
    /\ callbackLog' = IF orphans[i].run = latestFit(runs)
                      THEN callUser(callbackLog, orphans[i].hasCallback, orphans[i].run,
                                    orphans[i].epoch, logs)
                      ELSE callbackLog
    /\ runs' = [runs EXCEPT ![orphans[i].run].done = @ + 1]
    /\ orphans' = [orphans EXCEPT ![i].epoch = @ + 1]
    /\ UNCHANGED <<moreVars, pc, call, thrown, gruVars, loaderVars, seqTensors, forecastVars,
                   cls, model, isTraining, fit, stopAsked, stopIssued>>

\* The orphans without the i-th.
withoutOrphan(fits, i) ==
    [k \in 1..(Len(fits) - 1) |-> IF k < i THEN fits[k] ELSE fits[k + 1]]

\* A fit on a replaced model settles: it resolves after its last epoch, or
\* it rejects; train clears isTraining either way, and the catch block of
\* the application's trainModel runs on a rejection.
OrphanSettled(i, fails) ==
    /\ At("orchestrator")
    /\ i \in 1..Len(orphans)
    /\ fails \/ orphans[i].epoch = orphans[i].epochs
    /\ runs' = IF fails
               THEN [runs EXCEPT ![orphans[i].run].status = "failed",
                                 ![orphans[i].run].error = [message |-> "fit failed",
                                                            history |-> Null]]
               ELSE [runs EXCEPT ![orphans[i].run].status = "resolved"]
    /\ orphans' = withoutOrphan(orphans, i)
    /\ isTraining' = FALSE
    /\ app' = IF fails /\ pc = "app" THEN trainModelCatch(app) ELSE app
    /\ thrown' = IF fails /\ pc = "app" THEN "fit failed" ELSE thrown
    /\ UNCHANGED <<pc, call, gruVars, loaderVars, seqTensors, forecastVars,
                   cls, model, history, writers, fit, stopAsked,
                   callbackLog, stopIssued, disposedModel, result, normalizedWith,
                   fitArgs, scalerVars>>

\* dispose(): gru.js disposes the tf model and keeps referring to it, the
\* guarded class also clears this.model and this.history; neither looks at
\* a fit in flight, which goes on.
DisposeModel ==
    IF cls = "gru"
    THEN /\ disposedModel' = model
         /\ UNCHANGED <<model, history, writers, fit, orphans>>
    ELSE /\ model' = FALSE
         /\ history' = EmptyHistory
         /\ writers' = <<>>
         /\ orphans' = IF fit = Null THEN orphans ELSE Append(orphans, fit)
         /\ fit' = Null
         /\ UNCHANGED disposedModel

Dispose ==
    /\ At("orchestrator")
    /\ DisposeModel
    /\ call' = [op |-> "dispose"]
    /\ thrown' = "none"
    /\ result' = Null
    /\ UNCHANGED <<restVars, pc, loaderVars, gruVars, seqTensors, forecastVars, cls, isTraining,
                   stopAsked, runs, callbackLog, stopIssued, normalizedWith>>

InitTrain ==
    /\ pc = "orchestrator"
    /\ call = Null
    /\ thrown = "none"
    /\ featureData = Null
    /\ GruIdle
    /\ LoaderIdle
    /\ seqTensors = Null
    /\ cls \in Classes
    /\ TrainIdle
    /\ ForecastIdle
    /\ MoreIdle

NextTrain ==
    \/ BuildModel
    \/ \E epochs \in 1..MaxEpochs, hasCallback \in BOOLEAN : TrainCall(epochs, hasCallback)
    \/ \E logs \in Logs : EpochEnd(logs)
    \/ FitResolve
    \/ FitFail
    \/ StopTraining
    \/ Dispose
    \/ \E i \in 1..MaxCalls, logs \in LifeLogs : OrphanEpochEnd(i, logs)
    \/ \E i \in 1..MaxCalls, fails \in BOOLEAN : OrphanSettled(i, fails)

SpecTrain == InitTrain /\ [][NextTrain]_vars

\* The orchestrator of the guarded class on its own.
InitGuarded == InitTrain /\ cls = "guarded"

SpecGuarded == InitGuarded /\ [][NextTrain]_vars

\* ------------------------------------------------- recursive forecasting
\* Array.prototype.shift() followed by push(v): shift leaves an empty
\* array empty.
shiftPush(window, v) ==
    (IF window = <<>> THEN <<>> ELSE Tail(window)) \o <<v>>

\* Inputs of the life cycle and of the forecast: two-day series, what the
\* capability predicts, the values of a window.
LifeSeries == { r \in ReturnSeries : Len(r) = 2 /\ r[2] = DblZero }
PredValues == { DblOfInt(v) : v \in (-MaxPred)..MaxPred }
WindowValues == { DblOfRat(<<-1, 2>>), DblZero, DblOfInt(2) }

\* The least and the greatest element of a series that is not empty.
arrayMin(s) ==
    CHOOSE x \in { s[i] : i \in 1..Len(s) } : \A i \in 1..Len(s) : ~DblLess(s[i], x)
arrayMax(s) ==
    CHOOSE x \in { s[i] : i \in 1..Len(s) } : \A i \in 1..Len(s) : ~DblLess(x, s[i])

\* GRUModel.normalizeData(data) of the guarded class, the only assignment
\* of this.dataStats after the constructor.  tf holds float32 values: the
\* mean, the variance of tf.moments, its root, the differences and the
\* quotients are each rounded to float32.
normalizeDataOf(returns) ==
    LET x == Digits([i \in 1..Len(returns) |-> Float32(returns[i])])
        mean == Float32(Mean(x))
        std == Float32(mathSqrt64(Float32(Variance(x))))
        st == [mean |-> mean, std |-> IF std = DblZero THEN DblOfInt(1) ELSE std,
               min |-> arrayMin(x), max |-> arrayMax(x)]
    IN  [ dataStats |-> st,
          normalized |-> [i \in 1..Len(x) |->
                             Float32(DblDiv(Float32(DblSub(x[i], mean)), st.std))] ]

normalizedData == [returns \in LifeSeries \cup {<<DblOfInt(1), DblOfInt(5)>>,
                                                <<DblOfInt(-1), DblOfInt(2)>>} |->
                      normalizeDataOf(returns)]

normalizeData(returns) == Cached(normalizedData, returns, normalizeDataOf(returns))

\* The statistics this.dataStats holds: those of the constructor and those
\* normalizeData stored.
StatsInputs ==
    { InitialDataStats, normalizedData[<<DblOfInt(1), DblOfInt(5)>>].dataStats,
      normalizedData[<<DblOfInt(-1), DblOfInt(2)>>].dataStats }
DataStats == StatsInputs \cup { normalizedData[r].dataStats : r \in LifeSeries }

\* predValue * this.dataStats.std + this.dataStats.mean, on numbers
denormalizeNumber(v, st) == DblAdd(DblMul(v, st.std), st.mean)

denormalizedValue == [p \in PredValues \X DataStats |-> denormalizeNumber(p[1], p[2])]

denormalizeValue(v, st) == Cached(denormalizedValue, <<v, st>>, denormalizeNumber(v, st))

\* denormalize(predictions): predictions.mul(std).add(mean), on float32 tensors
denormalizeTensor(v, st) == Float32(DblAdd(Float32(DblMul(v, st.std)), st.mean))

denormalizedTensor == [p \in PredValues \X DataStats |-> denormalizeTensor(p[1], p[2])]

denormalize(v, st) == Cached(denormalizedTensor, <<v, st>>, denormalizeTensor(v, st))

\* Variant: the denormalized prediction is fed back into the window.
nextWindowDenormalized(window, predValue, st) ==
    shiftPush(window, denormalizeValue(predValue, st))

\* The window of the next step: the oldest element dropped, the model's
\* own (normalized) output appended.
nextWindow(window, predValue, st) == shiftPush(window, predValue)

\* The loop of predictNextDays: outs[i] is what model.predict returns at
\* step i.  Gives the predictions and the windows the model was given.
RECURSIVE forecastLoop(_, _, _, _, _, _)
forecastLoop(window, outs, st, i, predictions, fed) ==
    IF i > Len(outs)
    THEN [predictions |-> predictions, fed |-> fed, outs |-> outs]
    ELSE forecastLoop(nextWindow(window, outs[i], st), outs, st, i + 1,
                      Append(predictions, denormalizeValue(outs[i], st)),
                      Append(fed, window))

\* predictNextDays(lastSequence, nDays)
PredictNextDays(nDays, outs) ==
    /\ pc = "trained"
    /\ cls = "guarded"
    /\ call' = [op |-> "predictNextDays", nDays |-> nDays]
    /\ IF ~model
       THEN /\ thrown' = "Model not trained yet"
            /\ UNCHANGED forecast
       ELSE /\ thrown' = "none"
            /\ forecast' = forecastLoop(lastSequence, outs, dataStats, 1, <<>>, <<>>)
    /\ pc' = "forecast"
    /\ UNCHANGED <<moreVars, gruVars, loaderVars, seqTensors, trainVars, dataStats, lastSequence>>

\* The state in which the application forecasts: a guarded model that is
\* built or not, statistics set by normalizeData or left at their defaults,
\* and the latest window of normalized returns.
InitForecast ==
    /\ pc = "trained"
    /\ call = Null
    /\ thrown = "none"
    /\ featureData = Null
    /\ GruIdle
    /\ LoaderIdle
    /\ seqTensors = Null
    /\ cls = "guarded"
    /\ model \in BOOLEAN
    /\ isTraining = FALSE
    /\ history = EmptyHistory
    /\ writers = <<>>
    /\ fit = Null
    /\ orphans = <<>>
    /\ stopAsked = FALSE
    /\ runs = <<>>
    /\ callbackLog = <<>>
    /\ stopIssued = Null
    /\ dataStats \in StatsInputs
    /\ lastSequence \in UNION { [1..k -> WindowValues] : k \in 1..MaxWindow }
    /\ forecast = Null
    /\ MoreIdle

NextForecast ==
    \E nDays \in 0..MaxDays : \E outs \in [1..nDays -> PredValues] :
        PredictNextDays(nDays, outs)

SpecForecast == InitForecast /\ [][NextForecast]_vars

\* ------------------------------------------------ life cycle of an instance
\* A DataLoader and a GRUModel of src/unnamed/part_001 used together, or a
\* GRUModel of src/gru.js: load, prepare, build, train, predict, forecast
\* and dispose, called in any order.
\* loadCSV(file): parseCSV replaces this.data, then calculateStatistics().
LoadCSV(returns) ==
    /\ pc = "life"
    /\ cls = "guarded"
    /\ data' = [returns |-> returns]
    /\ stats' = calculateStatistics(returns, stats)
    /\ call' = [op |-> "loadCSV"]
    /\ thrown' = "none"
    /\ result' = Null
    /\ UNCHANGED <<restVars, pc, processedData, loaderComplete, gruVars, seqTensors, trainVars,
                   forecastVars,
                   disposedModel, normalizedWith>>

\* predictNextDays(dataLoader.getLastSequence(), nDays): the window is the
\* one prepareSequences stored, or null when nothing has been prepared;
\* spreading null raises a TypeError once the model check has passed.
ForecastLastSequence(nDays, outs) ==
    /\ pc = "life"
    /\ cls = "guarded"
    /\ call' = [op |-> "predictNextDays", nDays |-> nDays]
    /\ IF ~model
       THEN /\ thrown' = "Model not trained yet"
            /\ result' = Null
       ELSE IF processedData = Null
       THEN /\ thrown' = "TypeError: lastSequence is not iterable"
            /\ result' = Null
       ELSE /\ thrown' = "none"
            /\ result' = [value |-> forecastLoop(processedData.lastSequence, outs,
                                                 dataStats, 1, <<>>, <<>>)]
    /\ UNCHANGED <<restVars, pc, loaderVars, gruVars, seqTensors, trainVars, forecastVars,
                   disposedModel, normalizedWith>>

\* loadData('synthetic'): generateSyntheticData() replaces this.data with a
\* series it draws, then calculateStatistics().
GenerateSyntheticData(returns) ==
    /\ pc = "life"
    /\ cls = "guarded"
    /\ data' = [returns |-> returns]
    /\ stats' = calculateStatistics(returns, stats)
    /\ call' = [op |-> "generateSyntheticData"]
    /\ thrown' = "none"
    /\ result' = Null
    /\ UNCHANGED <<restVars, pc, processedData, loaderComplete, gruVars, seqTensors, trainVars,
                   forecastVars,
                   disposedModel, normalizedWith>>

\* DataLoader.dispose()
DisposeLoader ==
    /\ pc = "life"
    /\ cls = "guarded"
    /\ data' = Null
    /\ processedData' = Null
    /\ stats' = InitialStats
    /\ call' = [op |-> "disposeLoader"]
    /\ thrown' = "none"
    /\ result' = Null
    /\ UNCHANGED <<restVars, pc, loaderComplete, gruVars, seqTensors, trainVars, forecastVars,
                   disposedModel, normalizedWith>>

\* normalizeData(data): stores the statistics and returns the normalized data.
NormalizeData(returns) ==
    /\ pc = "life"
    /\ cls = "guarded"
    /\ dataStats' = normalizeData(returns).dataStats
    /\ result' = [value |-> normalizeData(returns).normalized]
    /\ call' = [op |-> "normalizeData"]
    /\ thrown' = "none"
    /\ UNCHANGED <<restVars, pc, loaderVars, gruVars, seqTensors, trainVars, lastSequence, forecast,
                   disposedModel, normalizedWith>>

\* predict(X): outs is what model.predict returns for the batch.  gru.js
\* returns it as it is, the guarded class returns denormalize(outs).
predictMessage(c) ==
    IF c = "gru" THEN "Model must be trained before prediction"
    ELSE "Model not trained yet"

predict(c, outs, st) ==
    IF c = "gru" THEN outs
    ELSE [i \in 1..Len(outs) |-> denormalize(outs[i], st)]

Predict(outs) ==
    /\ pc = "life"
    /\ call' = [op |-> "predict", outs |-> outs]
    /\ IF ~model
       THEN /\ thrown' = predictMessage(cls)
            /\ result' = Null
       ELSE IF disposedModel
       THEN /\ thrown' = "LayersVariable is already disposed"
            /\ result' = Null
       ELSE /\ thrown' = "none"
            /\ result' = [value |-> predict(cls, outs, dataStats)]
    /\ UNCHANGED <<restVars, pc, loaderVars, gruVars, seqTensors, trainVars, forecastVars,
                   disposedModel, normalizedWith>>

\* One-epoch runs; the default trainRatio is 0.8 = 16/RatioDen.
InitLife ==
    /\ pc = "life"
    /\ call = Null
    /\ thrown = "none"
    /\ featureData = Null
    /\ GruIdle
    /\ LoaderIdle
    /\ seqTensors = Null
    /\ cls \in Classes
    /\ TrainIdle
    /\ ForecastIdle
    /\ MoreIdle

NextLife ==
    \/ \E r \in LifeSeries : LoadCSV(r)
    \/ \E sl \in 1..MaxLookback : PrepareSequences(sl, 16)
    \/ \E r \in SyntheticSeries \ {<<>>} : GenerateSyntheticData(r)
    \/ DisposeLoader
    \/ \E r \in LifeSeries : NormalizeData(r)
    \/ BuildModel
    \/ (Len(runs) < MaxLifeCalls /\ TrainCall(1, FALSE))
    \/ \E logs \in LifeLogs : EpochEnd(logs)
    \/ FitResolve
    \/ FitFail
    \/ \E out \in PredValues : Predict(<<out>>)
    \/ \E out \in PredValues : ForecastLastSequence(1, <<out>>)
    \/ Dispose
    \/ \E logs \in LifeLogs : OrphanEpochEnd(1, logs)
    \/ \E fails \in BOOLEAN : OrphanSettled(1, fails)

SpecLife == InitLife /\ [][NextLife]_vars

\* ------------------------------------------------- prediction confidence
\* Math.max and Math.min of two numbers: NaN when either is.
mathMax(a, b) == IF a = NaN \/ b = NaN THEN NaN ELSE IF DblLess(a, b) THEN b ELSE a
mathMin(a, b) == IF a = NaN \/ b = NaN THEN NaN ELSE IF DblLess(b, a) THEN b ELSE a

\* calculatePredictionConfidence(prediction) on the training history h.
calculatePredictionConfidence(h, prediction) ==
    IF Len(h.loss) = 0 THEN DblOfRat(<<1, 2>>)
    ELSE LET avgValLoss == DblDiv(reduceSum(h.val_loss), DblOfInt(Len(h.val_loss)))
             lossConfidence ==
                 mathMax(DblZero,
                         DblSub(DblOfInt(1), DblMul(mathSqrt64(avgValLoss), DblOfInt(10))))
             magnitudeConfidence ==
                 mathMax(DblZero,
                         DblSub(DblOfInt(1), DblMul(DblAbs(prediction), DblOfInt(2))))
         IN  mathMin(DblOfRat(<<95, 100>>),
                     mathMax(DblOfRat(<<1, 10>>),
                             DblDiv(DblAdd(lossConfidence, magnitudeConfidence),
                                    DblOfInt(2))))

CalculatePredictionConfidence(prediction) ==
    /\ pc = "confidence"
    /\ result' = [value |-> calculatePredictionConfidence(history, prediction)]
    /\ call' = [op |-> "calculatePredictionConfidence", prediction |-> prediction]
    /\ thrown' = "none"
    /\ pc' = "scored"
    /\ UNCHANGED <<restVars, gruVars, loaderVars, seqTensors, trainVars, forecastVars, disposedModel,
                   normalizedWith>>

\* Losses (k/20)^2, whose root times ten is near k/2; NaN; and a negative
\* number, which no squared-error loss is.
ConfidenceLosses ==
    { DblOfRat(<<k * k, 400>>) : k \in 0..(MaxLoss + 1) } \cup {NaN, DblOfRat(<<-1, 400>>)}
ConfidencePredictions ==
    { DblOfRat(<<k, 8>>) : k \in (-MaxEighths)..MaxEighths } \cup {NaN}

\* The histories onEpochEnd can have written: one loss and one validation
\* loss per epoch.
ConfidenceHistories ==
    { [loss |-> l, val_loss |-> l, epochs |-> <<>>] :
        l \in UNION { [1..n -> ConfidenceLosses] : n \in 0..MaxEpochs } }

InitConfidence ==
    /\ pc = "confidence"
    /\ call = Null
    /\ thrown = "none"
    /\ featureData = Null
    /\ GruIdle
    /\ LoaderIdle
    /\ seqTensors = Null
    /\ cls = "gru"
    /\ model = TRUE
    /\ isTraining = FALSE
    /\ history \in ConfidenceHistories
    /\ writers = <<>>
    /\ fit = Null
    /\ orphans = <<>>
    /\ stopAsked = FALSE
    /\ runs = <<>>
    /\ callbackLog = <<>>
    /\ stopIssued = Null
    /\ ForecastIdle
    /\ MoreIdle

NextConfidence ==
    \E prediction \in ConfidencePredictions : CalculatePredictionConfidence(prediction)

SpecConfidence == InitConfidence /\ [][NextConfidence]_vars

\* ------------------------------------------- StockPredictorApp (src/app.js)
\* dataLoader.preprocessData(): build(featureRows, targets, lookback)
\* followed by split(sequences, trainRatio, valRatio), which give the
\* three partitions train, validation and test.
preprocessData(fd, lb, trainNum, valNum) ==
    splitData(createSequences(fd.X, fd.y, lb), trainNum, valNum)

\* The fields of a new StockPredictorApp; loading counts the calls of
\* loadAndPrepareData that await dataLoader.loadCSV.
InitialApp ==
    [ datasets |-> Null, isDataLoaded |-> FALSE, isModelTrained |-> FALSE,
      trainBtn |-> FALSE, predictBtn |-> FALSE, currentFile |-> FALSE,
      loading |-> 0 ]

\* updateUI(): it enables buttons and disables none.
updateUI(a) ==
    [ a EXCEPT !.trainBtn = IF a.isDataLoaded THEN TRUE ELSE @,
               !.predictBtn = IF a.isModelTrained THEN TRUE ELSE @ ]

\* What the change event of the file input brings: a CSV file, a file of
\* another kind, or no file (the selection was cleared).
FileKinds == {"csv", "other", "none"}

\* The change handler of the file input: this.currentFile = e.target.files[0],
\* then onFileSelected(), which does nothing without a file and returns
\* before updateUI() for a file that is not a CSV file.
SelectFile(kind) ==
    /\ pc = "app"
    /\ app' = IF kind = "none" THEN [app EXCEPT !.currentFile = FALSE]
              ELSE IF kind = "other" THEN [app EXCEPT !.currentFile = TRUE]
              ELSE updateUI([app EXCEPT !.currentFile = TRUE])
    /\ call' = [op |-> "onFileSelected"]
    /\ thrown' = "none"
    /\ UNCHANGED <<pc, gruVars, loaderVars, seqTensors, trainVars, forecastVars,
                   disposedModel, result, normalizedWith, fitArgs, scalerVars>>

\* loadAndPrepareData() up to its await of dataLoader.loadCSV: without a
\* file it returns at once, with one it waits for the FileReader.
LoadAndPrepareData ==
    /\ pc = "app"
    /\ app.currentFile => app.loading < MaxLoads
    /\ app' = IF app.currentFile THEN [app EXCEPT !.loading = @ + 1] ELSE app
    /\ call' = [op |-> "loadAndPrepareData"]
    /\ thrown' = "none"
    /\ UNCHANGED <<pc, gruVars, loaderVars, seqTensors, trainVars, forecastVars,
                   disposedModel, result, normalizedWith, fitArgs, scalerVars>>

\* How a load can end: "none", or the step whose exception the catch block
\* receives.  A dataLoader without preprocessData fails there at the latest.
loadOutcomes(complete) ==
    IF complete THEN {"none", "loadCSV", "preprocessData", "getStats"}
    ELSE {"loadCSV", "preprocessData"}

\* The FileReader delivers and loadAndPrepareData goes on.  loadCSV either
\* fails and leaves the loader as it is, or parseCSV replaces this.data and
\* calculateStatistics() the statistics; then this.datasets =
\* dataLoader.preprocessData() and dataLoader.getStats().  On success the
\* Train button is enabled; the catch block resets isDataLoaded; both end
\* with updateUI().
LoadAndPrepareDataResumed(fd, returns, failure) ==
    /\ pc = "app"
    /\ app.loading > 0
    /\ failure \in loadOutcomes(loaderComplete)
    /\ IF failure = "loadCSV"
       THEN UNCHANGED <<data, stats>>
       ELSE /\ data' = [returns |-> returns]
            /\ stats' = calculateStatistics(returns, stats)
    /\ app' = updateUI([ app EXCEPT
                  !.loading = @ - 1,
                  !.datasets = IF failure \in {"loadCSV", "preprocessData"} THEN @
                               ELSE preprocessData(fd, MaxLookback, 14, 3),
                  !.isDataLoaded = (failure = "none"),
                  !.trainBtn = IF failure = "none" THEN TRUE ELSE @ ])
    /\ call' = [op |-> "loadAndPrepareData"]
    /\ thrown' = "none"
    /\ UNCHANGED <<pc, gruVars, processedData, loaderComplete, seqTensors, trainVars,
                   forecastVars, disposedModel, result, normalizedWith, fitArgs,
                   scalerVars>>

\* StockPredictorApp.dispose(): the tensors of this.datasets are disposed,
\* then gruModel.dispose() and dataLoader.dispose(); no field of the
\* application changes.
DisposeApp ==
    /\ pc = "app"
    /\ DisposeModel
    /\ data' = Null
    /\ processedData' = Null
    /\ stats' = InitialStats
    /\ call' = [op |-> "dispose"]
    /\ thrown' = "none"
    /\ UNCHANGED <<pc, gruVars, loaderComplete, seqTensors, forecastVars, cls, isTraining,
                   stopAsked, runs, callbackLog, stopIssued, result, normalizedWith,
                   appVars, scalerVars>>

\* What train(X_train, y_train, X_val, y_val, ...) hands to model.fit: the
\* training tensors and validationData.
fitArguments(X_train, y_train, X_val, y_val) ==
    [ x |-> X_train, y |-> y_train, validationData |-> <<X_val, y_val>> ]

\* The call in trainModel: gruModel.train(this.datasets.X_train,
\* this.datasets.y_train, this.datasets.X_test, this.datasets.y_test, ...).
trainArguments(ds) ==
    fitArguments(ds.X_train, ds.y_train, ds.X_test, ds.y_test)

\* The arguments of that call by position: the fifth is the object
\* { onEpochEnd, onTrainEnd }.
TrainModelArguments == <<"X_train", "y_train", "X_test", "y_test", "callbacks">>

\* The position of the parameter through which each train takes the
\* caller's callbacks: train(X_train, y_train, X_val, y_val, epochs,
\* batchSize, callbacks) in gru.js, train(xTrain, yTrain, xVal, yVal, epochs,
\* onEpochEnd) in the guarded class.
callbacksPosition(c) == IF c = "gru" THEN 7 ELSE 6

\* Whether train calls the onEpochEnd the application supplied, and whether
\* it calls its onTrainEnd (the guarded class takes none).
userOnEpochEnd(c, args) ==
    /\ Len(args) >= callbacksPosition(c)
    /\ args[callbacksPosition(c)] = (IF c = "gru" THEN "callbacks" ELSE "onEpochEnd")
userOnTrainEnd(c, args) ==
    /\ c = "gru"
    /\ Len(args) >= callbacksPosition(c)
    /\ args[callbacksPosition(c)] = "callbacks"

\* The onTrainEnd handler of trainModel.
trainModelOnTrainEnd(a) ==
    [a EXCEPT !.isModelTrained = TRUE, !.predictBtn = TRUE, !.trainBtn = FALSE]

\* trainModel(), by a click on the enabled Train button, up to its await of
\* gruModel.train: buildModel(), then train up to its call of model.fit,
\* which receives the callbacks object as its number of epochs and runs
\* `epochs` epochs.  The guarded class rejects the call while isTraining is
\* set, and the catch block enables the button again.  In gru.js buildModel
\* replaces this.model, and a fit still running on the replaced model runs
\* on beside the new one.
TrainModel(epochs) ==
    /\ pc = "app"
    /\ app.trainBtn
    /\ Len(runs) < MaxCalls
    /\ call' = [op |-> "trainModel"]
    /\ IF app.datasets = Null
       THEN /\ thrown' = "none"
            /\ UNCHANGED <<app, model, disposedModel, isTraining, history, writers,
                           fitArgs, fit, orphans, runs, callbackLog>>
       ELSE /\ model' = TRUE
            /\ disposedModel' = FALSE
            /\ orphans' = IF fit = Null THEN orphans ELSE Append(orphans, fit)
            /\ IF alreadyTraining(cls, isTraining)
               THEN /\ thrown' = "Model is already training"
                    /\ app' = trainModelCatch(app)
                    /\ runs' = Append(runs, RunRecord("rejected", InFlight > 0,
                                                      "Model is already training"))
                    /\ fit' = Null
                    /\ UNCHANGED <<isTraining, history, writers, fitArgs, callbackLog>>
               ELSE /\ thrown' = "none"
                    /\ app' = [app EXCEPT !.trainBtn = FALSE, !.predictBtn = FALSE]
                    /\ isTraining' = (cls = "guarded")
                    /\ history' = EmptyHistory
                    /\ writers' = <<>>
                    /\ fit' = [run |-> Len(runs) + 1, epochs |-> epochs, epoch |-> 0,
                               hasCallback |-> userOnEpochEnd(cls, TrainModelArguments)]
                    /\ runs' = Append(runs, RunRecord("fitting", InFlight > 0, "none"))
                    /\ callbackLog' = <<>>
                    /\ fitArgs' = Append(fitArgs, [ datasets |-> app.datasets,
                                                    args |-> trainArguments(app.datasets) ])
    /\ UNCHANGED <<pc, gruVars, loaderVars, seqTensors, forecastVars, cls, stopAsked,
                   stopIssued, result, normalizedWith, scalerVars>>

\* model.fit resolves and trainModel's await returns: train's onTrainEnd
\* passes the call on to the application's when it holds one.
TrainModelResolved ==
    /\ pc = "app"
    /\ fit # Null
    /\ fit.epoch = fit.epochs
    /\ runs' = [runs EXCEPT ![fit.run].status = "resolved"]
    /\ isTraining' = FALSE
    /\ fit' = Null
    /\ app' = IF userOnTrainEnd(cls, TrainModelArguments)
              THEN trainModelOnTrainEnd(app) ELSE app
    /\ UNCHANGED <<orphans, pc, call, thrown, gruVars, loaderVars, seqTensors, forecastVars,
                   cls, model, history, writers, stopAsked, callbackLog, stopIssued,
                   disposedModel, result, normalizedWith, fitArgs, scalerVars>>

\* model.fit rejects: train rethrows and the catch block of trainModel runs.
TrainModelFailed ==
    /\ pc = "app"
    /\ fit # Null
    /\ runs' = [runs EXCEPT ![fit.run].status = "failed",
                            ![fit.run].error = [message |-> "fit failed",
                                                history |-> Null]]
    /\ isTraining' = FALSE
    /\ fit' = Null
    /\ app' = trainModelCatch(app)
    /\ thrown' = "fit failed"
    /\ UNCHANGED <<orphans, pc, call, gruVars, loaderVars, seqTensors, forecastVars,
                   cls, model, history, writers, stopAsked, callbackLog, stopIssued,
                   disposedModel, result, normalizedWith, fitArgs, scalerVars>>

AppFailures == loadOutcomes(TRUE)
\* The returns parseCSV computes from the file the application loads.
AppReturns == { r \in LifeSeries : r[1] = DblOfInt(1) }
\* The file the application loads: the longest feature matrix, of rows that
\* are told apart.
AppInputs == { fd \in FeatureInputs : Len(fd.X) = MaxRows /\ fd.X[1] # fd.X[3] }

InitApp ==
    /\ pc = "app"
    /\ call = Null
    /\ thrown = "none"
    /\ featureData = Null
    /\ GruIdle
    /\ data = Null
    /\ stats = InitialStats
    /\ processedData = Null
    /\ loaderComplete \in BOOLEAN
    /\ seqTensors = Null
    /\ cls \in Classes
    /\ TrainIdle
    /\ ForecastIdle
    /\ disposedModel = FALSE
    /\ result = Null
    /\ normalizedWith = Null
    /\ app = InitialApp
    /\ fitArgs = <<>>
    /\ ScalerIdle

NextApp ==
    \/ \E kind \in FileKinds : SelectFile(kind)
    \/ LoadAndPrepareData
    \/ \E fd \in AppInputs, returns \in AppReturns, failure \in AppFailures :
          LoadAndPrepareDataResumed(fd, returns, failure)
    \/ DisposeApp
    \/ \E epochs \in 1..MaxEpochs : TrainModel(epochs)
    \/ \E logs \in LifeLogs : EpochEnd(logs)
    \/ TrainModelResolved
    \/ TrainModelFailed
    \/ StopTraining
    \/ \E i \in 1..MaxCalls, logs \in LifeLogs : OrphanEpochEnd(i, logs)
    \/ \E i \in 1..MaxCalls, fails \in BOOLEAN : OrphanSettled(i, fails)

SpecApp == InitApp /\ [][NextApp]_vars

\* The capability goes on with a fit it has started, a fit that has run
\* its epochs resolves, and the FileReader delivers.
SpecAppLive ==
    /\ SpecApp
    /\ WF_vars(\E fd \in AppInputs, returns \in AppReturns, failure \in AppFailures :
                  LoadAndPrepareDataResumed(fd, returns, failure))
    /\ WF_vars(\E logs \in LifeLogs : EpochEnd(logs))
    /\ WF_vars(TrainModelResolved)
    /\ WF_vars(\E i \in 1..MaxCalls, logs \in LifeLogs : OrphanEpochEnd(i, logs))
    /\ WF_vars(\E i \in 1..MaxCalls : OrphanSettled(i, FALSE))

\* ------------------------------------ normalizing and denormalizing returns
\* DataLoader.normalizeReturns / denormalizeReturns of src/unnamed/part_001,
\* called on a loader that has loaded a file, generated a series, been
\* disposed, or done none of these.
\* normalizeReturns(returns); the caller keeps what it returns.
NormalizeReturns(returns) ==
    /\ pc = "life"
    /\ cls = "guarded"
    /\ call' = [op |-> "normalizeReturns", fitted |-> data # Null]
    /\ thrown' = "none"
    /\ result' = [value |-> normalizeReturns(returns, stats)]
    /\ held' = [normalized |-> normalizeReturns(returns, stats),
                input |-> returns, stats |-> stats]
    /\ UNCHANGED <<pc, loaderVars, gruVars, seqTensors, trainVars, forecastVars,
                   disposedModel, normalizedWith, appVars, featureMeans, featureStds,
                   firstFit>>

\* denormalizeReturns(normalized) on the array the caller holds.
DenormalizeReturns ==
    /\ pc = "life"
    /\ cls = "guarded"
    /\ held # Null
    /\ call' = [op |-> "denormalizeReturns", fitted |-> data # Null]
    /\ thrown' = "none"
    /\ result' = [value |-> denormalizeReturns(held.normalized, stats)]
    /\ UNCHANGED <<pc, loaderVars, gruVars, seqTensors, trainVars, forecastVars,
                   disposedModel, normalizedWith, restVars>>

InitScale ==
    /\ pc = "life"
    /\ call = Null
    /\ thrown = "none"
    /\ featureData = Null
    /\ GruIdle
    /\ LoaderIdle
    /\ seqTensors = Null
    /\ cls = "guarded"
    /\ TrainIdle
    /\ ForecastIdle
    /\ MoreIdle

NextScale ==
    \/ \E r \in ScaleSeries : LoadCSV(r)
    \/ \E r \in SyntheticSeries : GenerateSyntheticData(r)
    \/ DisposeLoader
    \/ \E returns \in ScaleInputs : NormalizeReturns(returns)
    \/ DenormalizeReturns

SpecScale == InitScale /\ [][NextScale]_vars

\* ------------------------------------------- createFeatures of src/gru.js
\* The columns of rawData are arrays of numbers.  The prices of the series
\* below are powers of two, so that every ratio of two prices is one.
\* Math.log(2): 0x162E42FEFA39EF * 2^-53.
Ln2 == DblExact(FALSE, <<14831, 32244, 14603, 177>>, -53)

\* Math.log on the powers of two from 1/16 to 16: for 2^k it returns the
\* product k * Ln2.
mathLog(x) == IF x = NaN THEN NaN ELSE DblMul(DblOfInt(x.e + Precision - 1), Ln2)

\* returns[i] = Math.log(prices[i] / prices[i-1]), 0 in the first row
calculateReturns(prices) ==
    Digits([i \in 1..Len(prices) |->
              IF i = 1 THEN DblZero ELSE mathLog(DblDiv(prices[i], prices[i - 1]))])

\* SPX_ret_5d_fwd: Math.log(SPX[i+5] / SPX[i]), 0 in the last five rows
forwardReturns(prices) ==
    Digits([i \in 1..Len(prices) |->
              IF i <= Len(prices) - 5 THEN mathLog(DblDiv(prices[i + 5], prices[i]))
              ELSE DblZero])

\* The window of `window` values that ends at row i.
windowSlice(values, i, window) == Digits([k \in 1..window |-> values[i - window + k]])

\* slice.reduce((a, b) => a + Math.pow(b - mean, 2), 0) over the first n
\* values; Math.pow(d, 2) is d * d.
RECURSIVE sumSquaredDiffs(_, _, _)
sumSquaredDiffs(slice, mean, n) ==
    IF n = 0 THEN DblZero
    ELSE DblAdd(sumSquaredDiffs(slice, mean, n - 1),
                DblMul(DblSub(slice[n], mean), DblSub(slice[n], mean)))

\* The deviation of a window from its mean.
windowStd(slice, mean, window) ==
    mathSqrt64(DblDiv(sumSquaredDiffs(slice, mean, Len(slice)), DblOfInt(window)))

rollingStd(returns, window) ==
    Digits([i \in 1..Len(returns) |->
              IF i <= window THEN DblZero
              ELSE windowStd(windowSlice(returns, i, window),
                             DblDiv(reduceSum(windowSlice(returns, i, window)),
                                    DblOfInt(window)),
                             window)])

sma(prices, window) ==
    Digits([i \in 1..Len(prices) |->
              IF i < window THEN DblZero
              ELSE DblDiv(reduceSum(windowSlice(prices, i, window)), DblOfInt(window))])

\* SPX_mom_10: SPX[i] / SPX[i-10] - 1 from the eleventh row on
momentum(prices) ==
    Digits([i \in 1..Len(prices) |->
              IF i <= 10 THEN DblZero
              ELSE DblSub(DblDiv(prices[i], prices[i - 10]), DblOfInt(1))])

\* One pass of the inner loop of computeRSI: a change above zero is added to
\* the gains, any other change is subtracted from the losses.
rsiChange(sums, change) ==
    IF change # NaN /\ DblLess(DblZero, change)
    THEN [sums EXCEPT !.gains = DblAdd(@, change)]
    ELSE [sums EXCEPT !.losses = DblSub(@, change)]

\* gains and losses after the changes of the rows from..to.
RECURSIVE rsiSums(_, _, _)
rsiSums(prices, from, to) ==
    IF to < from THEN [gains |-> DblZero, losses |-> DblZero]
    ELSE rsiChange(rsiSums(prices, from, to - 1), DblSub(prices[to], prices[to - 1]))

\* The RSI of the averages: 100 - (100 / (1 + avgGain / avgLoss)).
rsiOf(avgGain, avgLoss) ==
    IF avgLoss = DblZero THEN DblOfInt(100)
    ELSE DblSub(DblOfInt(100),
                DblDiv(DblOfInt(100), DblAdd(DblOfInt(1), DblDiv(avgGain, avgLoss))))

rsiAt(sums, window) ==
    rsiOf(DblDiv(sums.gains, DblOfInt(window)), DblDiv(sums.losses, DblOfInt(window)))

\* Variant: the rows before the window has filled hold 0.
computeRSIZeroFill(prices, window) ==
    Digits([i \in 1..Len(prices) |->
              IF i <= window THEN DblZero
              ELSE rsiAt(rsiSums(prices, i - window + 1, i), window)])

computeRSI(prices, window) ==
    Digits([i \in 1..Len(prices) |->
              IF i <= window THEN DblOfInt(50)
              ELSE rsiAt(rsiSums(prices, i - window + 1, i), window)])

\* The first of requiredCols that rawData lacks, or "none".
requiredCols == <<"SPX", "VIX", "SPY", "TNX", "DXY", "SPY_Volume">>
missingColumn(rawData) ==
    IF \A k \in 1..Len(requiredCols) : requiredCols[k] \in DOMAIN rawData THEN "none"
    ELSE requiredCols[CHOOSE k \in 1..Len(requiredCols) :
                         /\ requiredCols[k] \notin DOMAIN rawData
                         /\ \A j \in 1..(k - 1) : requiredCols[j] \in DOMAIN rawData]

\* rawData.Date || rawData.index, Null standing for undefined.
datesOf(rawData) ==
    IF "Date" \in DOMAIN rawData THEN rawData.Date
    ELSE IF "index" \in DOMAIN rawData THEN rawData.index
    ELSE Null

\* The rows of the columns of df, in the order of featureCols.
rawFeatures(rawData) ==
    LET SPX_ret == calculateReturns(rawData.SPX)
        VIX_ret == calculateReturns(rawData.VIX)
        SPY_ret == calculateReturns(rawData.SPY)
        TNX_ret == calculateReturns(rawData.TNX)
        DXY_ret == calculateReturns(rawData.DXY)
        SPX_vol_21 == rollingStd(SPX_ret, 21)
        SPX_vol_63 == rollingStd(SPX_ret, 63)
        SPX_SMA_10 == sma(rawData.SPX, 10)
        SPX_SMA_50 == sma(rawData.SPX, 50)
        SPX_mom_10 == momentum(rawData.SPX)
        SPX_RSI_14 == computeRSI(rawData.SPX, 14)
    IN  Digits([i \in 1..Len(rawData.SPX) |->
                  << SPX_ret[i], VIX_ret[i], SPY_ret[i], TNX_ret[i], DXY_ret[i],
                     rawData.SPY_Volume[i],
                     SPX_vol_21[i], SPX_vol_63[i],
                     SPX_SMA_10[i], SPX_SMA_50[i],
                     SPX_mom_10[i], SPX_RSI_14[i] >>])

\* startIdx: the index (from 0) of the first row none of whose features is
\* NaN and whose target is not NaN, and 0 when there is no such row.
definedRows(rows, targets, n) ==
    { i \in 0..(n - 1) : targets[i + 1] # NaN
                           /\ \A j \in 1..Len(rows[i + 1]) : rows[i + 1][j] # NaN }
firstIndex(found) == IF found = {} THEN 0 ELSE CHOOSE i \in found : \A k \in found : i <= k
startIdx(rows, targets, n) == firstIndex(definedRows(rows, targets, n))

\* Column j of a matrix.
columnOf(X, j) == Digits([i \in 1..Len(X) |-> X[i][j]])

\* The means and the deviations standardizeFeatures computes for a matrix
\* with at least one row: the sums are added up from 0 in row order, and a
\* deviation of 0 is replaced by 1.
meansOf(X) ==
    Digits([j \in 1..Len(X[1]) |-> DblDiv(reduceSum(columnOf(X, j)), DblOfInt(Len(X)))])
nonZeroStd(std) == IF std = DblZero THEN DblOfInt(1) ELSE std
stdsOf(X, means) ==
    Digits([j \in 1..Len(X[1]) |->
              nonZeroStd(mathSqrt64(DblDiv(sumSquaredDiffs(columnOf(X, j), means[j], Len(X)),
                                           DblOfInt(Len(X)))))])

\* (val - mean) / std in every cell.
scaledBy(X, means, stds) ==
    [ stored |-> [featureMeans |-> means, featureStds |-> stds],
      X_scaled |-> Digits([i \in 1..Len(X) |->
                             Digits([j \in 1..Len(X[i]) |->
                                       DblDiv(DblSub(X[i][j], means[j]), stds[j])])]) ]
scaledByMeans(X, means) == scaledBy(X, means, stdsOf(X, means))

\* standardizeFeatures(X): the matrix it returns and, in stored, what it
\* assigns to this.featureMeans and this.featureStds; a matrix without rows
\* is returned as it is, and nothing is assigned (Null).
standardizeFeatures(X) ==
    IF Len(X) = 0 THEN [stored |-> Null, X_scaled |-> X]
    ELSE scaledByMeans(X, meansOf(X))

\* The object createFeatures returns: the rows from startIdx on,
\* standardized, with their targets and dates.
featuresReturned(scaled, targets, dates) ==
    [ thrown |-> "none", X |-> scaled.X_scaled, y |-> targets, dates |-> dates,
      stored |-> scaled.stored ]
featuresFrom(rows, targets, dates, start) ==
    featuresReturned(standardizeFeatures(SliceFrom(rows, start)),
                     SliceFrom(targets, start), SliceFrom(dates, start))
featuresOf(rows, targets, dates) ==
    featuresFrom(rows, targets, dates, startIdx(rows, targets, Len(dates)))

\* createFeatures(rawData): what it throws, or what it returns and the
\* parameters it stores.
createFeatures(rawData) ==
    IF missingColumn(rawData) # "none"
    THEN [thrown |-> "Missing required column: " \o missingColumn(rawData)]
    ELSE IF datesOf(rawData) = Null
    THEN [thrown |-> "TypeError: Cannot read properties of undefined (reading 'length')"]
    ELSE featuresOf(rawFeatures(rawData), forwardReturns(rawData.SPX), datesOf(rawData))

\* Raw series of a given length: SPX is 2 in every row but one (or in every
\* row), SPY follows SPX, VIX alternates, TNX and DXY are flat.
rawSeries(len, at, price) ==
    [ Date |-> [i \in 1..len |-> 1000 + i],
      SPX |-> [i \in 1..len |-> DblOfInt(IF i = at THEN price ELSE 2)],
      VIX |-> [i \in 1..len |-> DblOfInt(1 + (i % 2))],
      SPY |-> [i \in 1..len |-> DblOfInt(IF i = at THEN price ELSE 2)],
      TNX |-> [i \in 1..len |-> DblOfInt(1)],
      DXY |-> [i \in 1..len |-> DblOfInt(4)],
      SPY_Volume |-> [i \in 1..len |-> DblOfInt(i)] ]

\* A raw series without one of its columns, with its dates under `index`,
\* and with a volume that is not a number in one row.
withoutColumn(rawData, col) == [c \in (DOMAIN rawData) \ {col} |-> rawData[c]]
withIndex(rawData) == [index |-> rawData.Date] @@ withoutColumn(rawData, "Date")
withVolumeNaN(rawData, row) == [rawData EXCEPT !.SPY_Volume[row] = NaN]

RawLengths == {MaxRows \div 2, MaxRows - 1, MaxRows + 3}
\* A dip in the second or in the last row, or none; a spike in the shortest
\* series only.
PlainInputs ==
    (UNION { { rawSeries(len, at, 1) : at \in {2, len} }
                 \cup { rawSeries(len, 0, 2) } : len \in RawLengths })
        \cup { rawSeries(MaxRows \div 2, at, 4) : at \in {2, MaxRows \div 2} }
RawInputs ==
    PlainInputs
        \cup { withoutColumn(rawSeries(MaxRows \div 2, 2, 1), "VIX"),
               withoutColumn(rawSeries(MaxRows \div 2, 2, 1), "Date"),
               withIndex(rawSeries(MaxRows \div 2, 2, 1)),
               withVolumeNaN(rawSeries(MaxRows \div 2, 2, 1), 1),
               withVolumeNaN(rawSeries(MaxRows \div 2, 2, 1), 4),
               rawSeries(0, 0, 2) }

\* createFeatures on each of the raw series, computed once.
createdFeatures == [rawData \in RawInputs |-> createFeatures(rawData)]

\* createFeatures(rawData) on the instance: nothing is assigned when it
\* throws, and no parameter when no row is left to standardize.
CreateFeatures(rawData) ==
    /\ pc = "life"
    /\ cls = "gru"
    /\ \E made \in {createdFeatures[rawData]} :
          /\ thrown' = made.thrown
          /\ IF made.thrown # "none"
             THEN UNCHANGED <<featureData, featureMeans, featureStds, firstFit>>
             ELSE /\ featureData' = [X |-> made.X, y |-> made.y, dates |-> made.dates]
                  /\ IF made.stored = Null
                     THEN UNCHANGED <<featureMeans, featureStds, firstFit>>
                     ELSE /\ featureMeans' = [value |-> made.stored.featureMeans]
                          /\ featureStds' = [value |-> made.stored.featureStds]
                          /\ firstFit' = IF firstFit = Null THEN made.stored ELSE firstFit
    /\ call' = [op |-> "createFeatures", rawData |-> rawData]
    /\ UNCHANGED <<pc, lookback, sequenceData, sequenceLabels, datasets, loaderVars,
                   seqTensors, trainVars, forecastVars, disposedModel, result,
                   normalizedWith, appVars, held>>

InitFeatures ==
    /\ pc = "life"
    /\ call = Null
    /\ thrown = "none"
    /\ featureData = Null
    /\ GruIdle
    /\ LoaderIdle
    /\ seqTensors = Null
    /\ cls = "gru"
    /\ TrainIdle
    /\ ForecastIdle
    /\ MoreIdle

NextFeatures ==
    \/ \E rawData \in RawInputs : CreateFeatures(rawData)
    \/ \E lb \in 1..MaxLookback : PrepareData(lb, 16, 2)

SpecFeatures == InitFeatures /\ [][NextFeatures]_vars

\* -------------------------------------------- sequence and split pipeline
\* The state after createFeatures (gru.js) or after loadCSV and its
\* calculateStatistics (DataLoader), before the sequences are prepared.
\* The parameters standardizeFeatures stores during createFeatures: none
\* for a matrix without rows.
storedParameters(fd) ==
    IF Len(fd.X) = 0 THEN Null
    ELSE createdFeatures[rawSeries(MaxRows \div 2, 0, 2)].stored

InitGruPrepared ==
    /\ pc = "ready"
    /\ featureData \in FeatureInputs
    /\ GruIdle
    /\ LoaderIdle
    /\ seqTensors = Null
    /\ cls = "gru"
    /\ TrainIdle
    /\ ForecastIdle
    /\ disposedModel = FALSE
    /\ result = Null
    /\ normalizedWith = Null
    /\ AppIdle
    /\ firstFit = storedParameters(featureData)
    /\ featureMeans = IF firstFit = Null THEN Null ELSE [value |-> firstFit.featureMeans]
    /\ featureStds = IF firstFit = Null THEN Null ELSE [value |-> firstFit.featureStds]
    /\ held = Null

InitLoaderLoaded ==
    /\ pc = "loaded"
    /\ featureData = Null
    /\ GruIdle
    /\ \E r \in ReturnSeries :
          /\ data = IF Len(r) = 0 THEN Null ELSE [returns |-> r]
          /\ stats = calculateStatistics(r, InitialStats)
    /\ processedData = Null
    /\ loaderComplete = FALSE
    /\ seqTensors = Null
    /\ cls = "guarded"
    /\ TrainIdle
    /\ ForecastIdle
    /\ MoreIdle

InitSplit ==
    /\ thrown = "none"
    /\ call = Null
    /\ (InitGruPrepared \/ InitLoaderLoaded)

NextSplit ==
    \/ At("ready") /\ \E lb \in Lookbacks, tr \in Ratios, vr \in Ratios :
                          PrepareData(lb, tr, vr)
    \/ At("loaded") /\ \E sl \in Lookbacks \cup {MaxReturns}, tr \in Ratios :
                           PrepareSequences(sl, tr)
    \/ \E sl \in Lookbacks \cup {MaxReturns} : CreateSequences(sl)

SpecSplit == InitSplit /\ [][NextSplit]_vars

\* ------------------------------------------------------ the RSI on its own
\* Price series: 2 up to row `at`, u in that row, v after it.
RsiInputs ==
    { [i \in 1..len |-> DblOfInt(IF i < at THEN 2 ELSE IF i = at THEN u ELSE v)] :
        len \in {0, 1, 14, 15, 16, 17}, at \in {2, 9, 15, 16},
        u \in {1, 2, 3, 5}, v \in {1, 2, 3} }

\* computeRSI(prices, 14) on each of the price series, computed once.
computedRSI == [prices \in RsiInputs |-> computeRSI(prices, 14)]

\* df.SPX_RSI_14 = computeRSI(df.SPX, 14) on a price series.
ComputeRSI(prices) ==
    /\ pc = "rsi"
    /\ result' = [value |-> computedRSI[prices]]
    /\ call' = [op |-> "computeRSI", prices |-> prices]
    /\ thrown' = "none"
    /\ UNCHANGED <<pc, gruVars, loaderVars, seqTensors, trainVars, forecastVars,
                   disposedModel, normalizedWith, restVars>>

InitRsi ==
    /\ pc = "rsi"
    /\ call = Null
    /\ thrown = "none"
    /\ featureData = Null
    /\ GruIdle
    /\ LoaderIdle
    /\ seqTensors = Null
    /\ cls = "gru"
    /\ TrainIdle
    /\ ForecastIdle
    /\ MoreIdle

NextRsi == \E prices \in RsiInputs : ComputeRSI(prices)

SpecRsi == InitRsi /\ [][NextRsi]_vars

\* --------------------------------------------------------- calculateRMSE
\* GRUModel.calculateRMSE of src/gru.js and of src/unnamed/part_001, which
\* differ in the message only.
rmseMessage(c) ==
    IF c = "gru" THEN "True and predicted arrays must have same length"
    ELSE "Predictions and actual arrays must have same length"

\* The sum of the squared errors, added up from the first row on;
\* Math.pow(error, 2) is error * error.
RECURSIVE sumSquaredError(_, _, _)
sumSquaredError(yTrue, yPred, n) ==
    IF n = 0 THEN DblZero
    ELSE DblAdd(sumSquaredError(yTrue, yPred, n - 1),
                DblMul(DblSub(yTrue[n], yPred[n]), DblSub(yTrue[n], yPred[n])))

\* Math.sqrt(sumSquaredError / yTrue.length); on two empty arrays the mean
\* is 0 / 0, which is NaN.
rootMeanSquare(yTrue, yPred) ==
    mathSqrt64(DblDiv(sumSquaredError(yTrue, yPred, Len(yTrue)), DblOfInt(Len(yTrue))))

\* Arrays of up to two values out of a tenth, zero and a whole number.
RmseValues == { DblOfRat(<<1, 10>>), DblZero, DblOfInt(MaxReturn) }
RmseArrays == UNION { [1..n -> RmseValues] : n \in 0..2 }
RmsePairs == RmseArrays \X RmseArrays

\* The root mean square of each pair of arrays of the same length, computed
\* once.
computedRMSE ==
    [p \in UNION { { <<yTrue, yPred>> : yTrue \in [1..n -> RmseValues],
                                        yPred \in [1..n -> RmseValues] } : n \in 0..2 } |->
        rootMeanSquare(p[1], p[2])]

\* Variant: the lengths are not compared; a row that the second array lacks
\* reads as undefined, whose error is NaN.
calculateRMSEUnchecked(c, yTrue, yPred) ==
    [ thrown |-> "none",
      value |-> IF Len(yPred) < Len(yTrue) THEN NaN
                ELSE Cached(computedRMSE, <<yTrue, yPred>>,
                            rootMeanSquare(yTrue, yPred)) ]

\* calculateRMSE(yTrue, yPred): what it throws, or the number it returns.
calculateRMSE(c, yTrue, yPred) ==
    IF Len(yTrue) # Len(yPred) THEN [thrown |-> rmseMessage(c)]
    ELSE [ thrown |-> "none",
           value |-> Cached(computedRMSE, <<yTrue, yPred>>,
                            rootMeanSquare(yTrue, yPred)) ]

CalculateRMSE(yTrue, yPred) ==
    /\ pc = "life"
    /\ \E r \in {calculateRMSE(cls, yTrue, yPred)} :
          /\ thrown' = r.thrown
          /\ result' = IF r.thrown = "none" THEN [value |-> r.value] ELSE Null
    /\ call' = [op |-> "calculateRMSE", yTrue |-> yTrue, yPred |-> yPred]
    /\ UNCHANGED <<pc, gruVars, loaderVars, seqTensors, trainVars, forecastVars,
                   disposedModel, normalizedWith, restVars>>

NextRmse ==
    \/ \E p \in RmsePairs : CalculateRMSE(p[1], p[2])
    \/ BuildModel
    \/ \E r \in LifeSeries : NormalizeData(r)
    \/ Dispose

SpecRmse == InitLife /\ [][NextRmse]_vars

\* ------------------------------------------------------------ the claims
\* Reference notions, stated without the operators of the model.
\* The k-row window that starts at row i (1-based) of rows.
WindowAt(rows, i, k) == [j \in 1..k |-> rows[i + j - 1]]

\* all is cut at a and b: the three parts are its three consecutive runs.
CutAt(all, a, b, first, second, third) ==
    /\ 0 <= a /\ a <= b /\ b <= Len(all)
    /\ first = [i \in 1..a |-> all[i]]
    /\ second = [i \in 1..(b - a) |-> all[a + i]]
    /\ third = [i \in 1..(Len(all) - b) |-> all[b + i]]

\* The partitions are consecutive runs of all and of labels, cut at the
\* same two indices: disjoint, complete, in order, train before validation
\* before test.
OrderedPartition(all, labels, Xa, ya, Xb, yb, Xc, yc) ==
    \E a \in 0..Len(all) : \E b \in a..Len(all) :
        /\ CutAt(all, a, b, Xa, Xb, Xc)
        /\ CutAt(labels, a, b, ya, yb, yc)

PrepareDataReturned == pc = "prepared" /\ datasets # Null
PrepareSequencesReturned == pc = "sequenced" /\ thrown = "none" /\ processedData # Null

\* The windows of the normalized series prepareSequences cut into parts.
LoaderWindows ==
    [i \in 1..(Len(processedData.normalizedReturns) - processedData.sequenceLength) |->
        WindowAt(processedData.normalizedReturns, i, processedData.sequenceLength)]
LoaderTargets ==
    [i \in 1..(Len(processedData.normalizedReturns) - processedData.sequenceLength) |->
        processedData.normalizedReturns[i + processedData.sequenceLength]]

\* C1: for every sequence collection and every ratio the splitters accept
\* (they reject none), the train, validation and test partitions of
\* prepareData and of prepareSequences are consecutive runs of the sequence
\* collection that cover it exactly once in the original order, train
\* indices below validation indices below test indices.
C1_SplitOrderedCover ==
    /\ PrepareDataReturned =>
          OrderedPartition(sequenceData, sequenceLabels,
                           datasets.X_train, datasets.y_train,
                           datasets.X_val, datasets.y_val,
                           datasets.X_test, datasets.y_test)
    /\ PrepareSequencesReturned =>
          OrderedPartition(LoaderWindows, LoaderTargets,
                           processedData.train.xs, processedData.train.ys,
                           processedData.val.xs, processedData.val.ys,
                           processedData.test.xs, processedData.test.ys)

RunOfWindows(part, skip) ==
    /\ Len(part.ys) = Len(part.xs)
    /\ skip >= 0
    /\ skip + Len(part.xs) <= Len(LoaderWindows)
    /\ \A j \in 1..Len(part.xs) :
          /\ part.xs[j] = LoaderWindows[skip + j]
          /\ part.ys[j] = LoaderTargets[skip + j]

\* C3: for L rows and a lookback k < L the sequence builders emit exactly
\* L - k sequences, the i-th being rows i..i+k-1 in order paired with the
\* target at row i+k (prepareData's createSequences, the windows of
\* prepareSequences, and createSequences of the return-only model).
\* prepareSequences keeps its sequences only as the three parts: each part
\* is a run of the L - k windows with their targets, and for a ratio that
\* is not negative the parts put together are all of them.
C3_SequenceAlignment ==
    /\ (PrepareDataReturned /\ call.lookback < Len(featureData.X)) =>
          /\ Len(sequenceData) = Len(featureData.X) - call.lookback
          /\ Len(sequenceLabels) = Len(sequenceData)
          /\ \A i \in 1..Len(sequenceData) :
                /\ sequenceData[i] = WindowAt(featureData.X, i, call.lookback)
                /\ sequenceLabels[i] = featureData.y[i + call.lookback]
    /\ PrepareSequencesReturned =>
          /\ Len(LoaderWindows) = Len(data.returns) - call.sequenceLength
          /\ RunOfWindows(processedData.train, 0)
          /\ \E skip \in 0..Len(LoaderWindows) : RunOfWindows(processedData.val, skip)
          /\ RunOfWindows(processedData.test,
                          Len(LoaderWindows) - Len(processedData.test.xs))
          /\ call.trainNum >= 0 =>
                /\ processedData.train.xs \o processedData.val.xs
                        \o processedData.test.xs = LoaderWindows
                /\ processedData.train.ys \o processedData.val.ys
                        \o processedData.test.ys = LoaderTargets
    /\ (pc = "windowed" /\ call.sequenceLength < Len(data.returns)) =>
          /\ Len(seqTensors.xs) = Len(data.returns) - call.sequenceLength
          /\ Len(seqTensors.ys) = Len(seqTensors.xs)
          /\ \A i \in 1..Len(seqTensors.xs) :
                /\ seqTensors.xs[i] = WindowAt(data.returns, i, call.sequenceLength)
                /\ seqTensors.ys[i] = data.returns[i + call.sequenceLength]

\* Sequences of a non-trivial lookback have been built over distinct rows.
C3_Witness ==
    /\ PrepareDataReturned
    /\ call.lookback = 2
    /\ Len(sequenceData) >= 3
    /\ sequenceData[2] = <<2, 3>>
    /\ sequenceLabels[2] = 104

\* A train call has just been made while a fit was in flight.
SecondTrainStep == InFlight > 0 /\ Len(runs') = Len(runs) + 1

\* C4: a train call made while a fit is in flight fails with the
\* training-in-progress error, starts no second fit and leaves the
\* training history as it was.
C4_SecondTrainRejected ==
    [][ SecondTrainStep =>
          /\ runs'[Len(runs')].status = "rejected"
          /\ runs'[Len(runs')].error.message = "Model is already training"
          /\ fit' = fit
          /\ orphans' = orphans
          /\ history' = history ]_vars

\* A run has just resolved, or a train call has just started a fit.
ResolvedNow(r) == runs[r].status = "fitting" /\ runs'[r].status = "resolved"
StartedNow == Len(runs') = Len(runs) + 1 /\ runs'[Len(runs')].status = "fitting"

\* C5: a train call that starts a run empties the history first, and when
\* a run that completed k epochs resolves the history holds exactly k
\* entries, all written by that run.
C5_HistoryOfRun ==
    [][ /\ StartedNow => history' = EmptyHistory
        /\ \A r \in DOMAIN runs :
              ResolvedNow(r) =>
                 /\ Len(history'.loss) = runs'[r].done
                 /\ Len(history'.val_loss) = runs'[r].done
                 /\ \A i \in DOMAIN writers' : writers'[i] = r ]_vars

\* The epoch handler has just run for the fit in flight on this.model, or
\* for a fit in flight on a model that has been replaced.
EpochStep == fit # Null /\ fit' # Null /\ fit'.epoch = fit.epoch + 1
OrphanEpochStep ==
    /\ Len(orphans') = Len(orphans)
    /\ \E i \in 1..Len(orphans) : orphans'[i].epoch = orphans[i].epoch + 1

\* C6: at every epoch boundary the orchestrator appends exactly one
\* (loss, validation loss) pair to the history and calls the supplied
\* callback exactly once with the same epoch and values; the callbacks of a
\* run arrive in epoch order 0, 1, 2, ... and all callbacks of the epochs
\* completed so far have been delivered before the next epoch ends.
C6_EpochProgress ==
    /\ [][ (EpochStep \/ OrphanEpochStep) =>
             /\ Len(history'.loss) = Len(history.loss) + 1
             /\ Len(history'.val_loss) = Len(history.val_loss) + 1
             /\ SubSeq(history'.loss, 1, Len(history.loss)) = history.loss
             /\ SubSeq(history'.val_loss, 1, Len(history.val_loss)) = history.val_loss
             /\ (EpochStep /\ fit.hasCallback) =>
                   /\ Len(callbackLog') = Len(callbackLog) + 1
                   /\ SubSeq(callbackLog', 1, Len(callbackLog)) = callbackLog
                   /\ callbackLog'[Len(callbackLog')].epoch = fit.epoch
                   /\ callbackLog'[Len(callbackLog')].loss
                         = history'.loss[Len(history'.loss)]
                   /\ callbackLog'[Len(callbackLog')].val_loss
                         = history'.val_loss[Len(history'.val_loss)]
             /\ (EpochStep /\ ~fit.hasCallback) => callbackLog' = callbackLog ]_vars
    /\ [](\A i \in DOMAIN callbackLog : callbackLog[i].epoch = i - 1)
    /\ []((fit # Null /\ fit.hasCallback) => Len(callbackLog) = fit.epoch)

\* Two epochs of a run with a callback have been reported.
C6_Witness ==
    /\ fit # Null /\ fit.hasCallback /\ fit.epoch = 2
    /\ Len(callbackLog) = 2
    /\ Len(history.loss) = 2
    /\ history.loss[1] # history.loss[2]

\* C7: while a run is in flight the history never gets shorter and every
\* entry in it was written by the epoch callbacks of that run.
C7_AppendOnlyDuringRun ==
    [][ fit # Null =>
          /\ Len(history'.loss) >= Len(history.loss)
          /\ SubSeq(history'.loss, 1, Len(history.loss)) = history.loss
          /\ \A i \in DOMAIN writers' : writers'[i] = fit.run ]_vars

\* C8: a stop request issued during a run makes the orchestrator ask the
\* capability to stop, raises no error, and no epoch after the one in
\* progress is recorded.
C8_StopAtEpochBoundary ==
    stopIssued # Null =>
        /\ stopAsked \/ runs[stopIssued.run].status # "fitting"
        /\ runs[stopIssued.run].done <= stopIssued.epoch + 1
        /\ runs[stopIssued.run].status # "failed" => runs[stopIssued.run].error = Null

\* C9: when fit fails after j completed epochs the error train raises
\* carries the j history entries recorded so far, the instance is not
\* marked as training and no fit is retried.
C9_FailureCarriesHistory ==
    \A r \in DOMAIN runs :
        (runs[r].status = "failed" /\ runs[r].error.message = "fit failed") =>
            /\ runs[r].error.history # Null
            /\ (fit = Null /\ Len(runs) = r) =>
                  /\ runs[r].error.history = history
                  /\ Len(history.loss) = runs[r].done
                  /\ ~isTraining

PredictNextDaysReturned == pc = "forecast" /\ thrown = "none" /\ forecast # Null

\* C10: recursive forecasting from a window of lookback length with horizon
\* N returns exactly N predictions; the first model input is the window
\* given, each later input is the previous input without its oldest element
\* and with the previous step's normalized output appended, so every input
\* has the lookback's length.
C10_RecursiveWindow ==
    PredictNextDaysReturned =>
        /\ Len(forecast.predictions) = call.nDays
        /\ Len(forecast.fed) = call.nDays
        /\ \A j \in 1..Len(forecast.fed) :
              /\ Len(forecast.fed[j]) = Len(lastSequence)
              /\ forecast.fed[j] =
                    IF j = 1 THEN lastSequence
                    ELSE [i \in 1..Len(lastSequence) |->
                             IF i < Len(lastSequence) THEN forecast.fed[j - 1][i + 1]
                             ELSE forecast.outs[j - 1]]

\* A forecast of three days has been made with statistics that tell the
\* normalized from the denormalized value.
C10_Witness ==
    /\ PredictNextDaysReturned
    /\ call.nDays = 3
    /\ Len(lastSequence) = 2
    /\ dataStats.std # DblOfInt(1)
    /\ forecast.predictions[1] # forecast.outs[1]
    /\ forecast.fed[3] = <<forecast.outs[1], forecast.outs[2]>>

\* A train call of this instance has run to its end.
SomeRunResolved == \E r \in 1..Len(runs) : runs[r].status = "resolved"

\* predictNextDays has returned its forecast for the window of the loader.
ForecastReturned ==
    /\ pc = "life"
    /\ call # Null
    /\ call.op = "predictNextDays"
    /\ thrown = "none"
    /\ result # Null

\* C11: after load, prepare, build and train, every value the forecaster
\* reports is the model output times the standard deviation plus the mean
\* that the window fed to the model was normalized with.
C11_ForecastDenormalized ==
    (ForecastReturned /\ SomeRunResolved) =>
        \A i \in 1..Len(result.value.predictions) :
            result.value.predictions[i] =
                DblAdd(DblMul(result.value.outs[i], safeStd(normalizedWith)),
                       normalizedWith.mean)

\* No training session has produced a usable model of this instance: no
\* train call has run to its end, or the model has been disposed since.
NoUsableModel == ~SomeRunResolved \/ ~model \/ disposedModel

\* A call of predict or of predictNextDays.
PredictionStep ==
    \E out \in PredValues : Predict(<<out>>) \/ ForecastLastSequence(1, <<out>>)

\* C12: batch prediction and recursive forecasting fail with the
\* model-not-trained error whenever no training session has produced a
\* usable model: before any train call has completed, and after dispose.
C12_PredictNeedsTrainedModel ==
    [][(PredictionStep /\ NoUsableModel) => thrown' = predictMessage(cls)]_vars

\* calculatePredictionConfidence has returned.
ConfidenceReturned ==
    /\ pc = "scored"
    /\ call.op = "calculatePredictionConfidence"
    /\ result # Null

InRange(x) ==
    /\ x # NaN
    /\ ~DblLess(x, DblOfRat(<<1, 10>>))
    /\ ~DblLess(DblOfRat(<<95, 100>>), x)

\* C13: calculatePredictionConfidence returns a value in [0.1, 0.95] for
\* every prediction and every training history, and 0.5 whenever the
\* history is empty.
C13_ConfidenceInRangeAlways ==
    ConfidenceReturned =>
        /\ InRange(result.value)
        /\ (Len(history.loss) = 0 => result.value = DblOfRat(<<1, 2>>))

\* C14: in every training run the application starts, fit receives the
\* training partition as training data and the validation partition as
\* validation data, so that nothing of the test partition is passed to fit.
C14_FitGetsTrainAndValidation ==
    \A i \in 1..Len(fitArgs) :
        /\ fitArgs[i].args.x = fitArgs[i].datasets.X_train
        /\ fitArgs[i].args.y = fitArgs[i].datasets.y_train
        /\ fitArgs[i].args.validationData =
               <<fitArgs[i].datasets.X_val, fitArgs[i].datasets.y_val>>

\* C15: the splitter fails with an invalid-ratio error whenever
\* trainRatio + valRatio > 1, and then returns no partitions.
C15_InvalidRatioRejected ==
    (pc = "prepared" /\ call.op = "prepareData"
        /\ call.trainNum + call.valNum > RatioDen) =>
        (thrown # "none" /\ datasets = Null)

\* C16: building sequences fails with an insufficient-data error whenever
\* lookback >= the number of feature rows, and never returns an empty
\* sequence set.
C16_InsufficientDataRejected ==
    /\ (pc = "prepared" /\ call.op = "prepareData" /\ call.lookback > 0
           /\ call.lookback >= Len(featureData.X)) =>
           (thrown # "none" /\ sequenceData = Null)
    /\ (pc = "sequenced" /\ call.op = "prepareSequences" /\ data # Null
           /\ call.sequenceLength >= Len(data.returns)) =>
           (thrown # "none" /\ processedData = Null)
    /\ (pc = "windowed" /\ call.op = "createSequences"
           /\ call.sequenceLength >= Len(data.returns)) =>
           (thrown # "none" /\ seqTensors = Null)

\* denormalizeReturns has returned the inverse of an array normalized with
\* the statistics that are still stored.
RoundTripDone ==
    /\ pc = "life"
    /\ call # Null
    /\ call.op = "denormalizeReturns"
    /\ held.stats = stats

\* C17 as stated: denormalizeReturns(normalizeReturns(x)) == x for all
\* fitted parameters, a standard deviation of zero included, provided the
\* parameters are not refit in between.
C17_RoundTripExact ==
    RoundTripDone =>
        \A i \in 1..Len(held.input) : result.value[i] = held.input[i]

\* C17, amended: the round trip gives back x up to the rounding of its four
\* operations: |denormalizeReturns(normalizeReturns(x)) - x| is at most
\* 2^-50 * (|x| + |mean|), for all fitted parameters, a standard deviation
\* of zero included, provided the parameters are not refit in between.
C17_RoundTripWithinRounding ==
    RoundTripDone =>
        \A i \in 1..Len(held.input) :
            DblAbsLeqScaled(ExactAdd(result.value[i], DblNeg(held.input[i])),
                            ExactAdd(DblAbs(held.input[i]), DblAbs(stats.mean)),
                            -50)

\* A round trip under the statistics of a loaded series, whose standard
\* deviation is neither zero nor one, that does not give back its input
\* exactly.
C17_Witness ==
    /\ RoundTripDone
    /\ data # Null
    /\ Len(data.returns) > 0
    /\ stats = computedStatistics[data.returns]
    /\ stats.std \notin {DblZero, DblOfInt(1)}
    /\ result.value[1] # held.input[1]

\* C18: the transform and its inverse fail with a not-fitted error before
\* any fit has happened on the instance, and never transform with the
\* default parameters.
C18_TransformNeedsFit ==
    (pc = "life" /\ call # Null
        /\ call.op \in {"normalizeReturns", "denormalizeReturns"}
        /\ ~call.fitted) =>
        (thrown # "none" /\ result = Null)

\* C19: once fit, the stored per-feature means and standard deviations equal
\* the values the first fit computed, whatever operations follow.
C19_ParametersImmutable ==
    firstFit # Null =>
        /\ featureMeans = [value |-> firstFit.featureMeans]
        /\ featureStds = [value |-> firstFit.featureStds]

\* The dates of a raw series.
RawDates(a) == IF "Date" \in DOMAIN a THEN a.Date ELSE a.index

\* createFeatures has returned.
FeaturesReturned ==
    pc = "life" /\ call # Null /\ call.op = "createFeatures" /\ thrown = "none"

\* Two raw series agree on all rows up to row i.
AgreeUpTo(a, b, i) ==
    /\ Len(a.SPX) >= i
    /\ Len(b.SPX) >= i
    /\ \A k \in 1..i :
          /\ RawDates(a)[k] = RawDates(b)[k]
          /\ a.SPX[k] = b.SPX[k]
          /\ a.VIX[k] = b.VIX[k]
          /\ a.SPY[k] = b.SPY[k]
          /\ a.TNX[k] = b.TNX[k]
          /\ a.DXY[k] = b.DXY[k]
          /\ a.SPY_Volume[k] = b.SPY_Volume[k]

\* C20: for every row i, a raw series that agrees with the one given to
\* createFeatures on all rows up to i yields the same feature row i.
C20_FeaturesCausal ==
    FeaturesReturned =>
        \A other \in RawInputs :
            createdFeatures[other].thrown = "none" =>
                \A i \in 1..Len(featureData.X) :
                    AgreeUpTo(call.rawData, other, i) =>
                        createdFeatures[other].X[i] = featureData.X[i]

\* The raw row (counted from 1) that the k-th returned row was made from,
\* told by its date.
RawIndex(k) ==
    CHOOSE i \in 1..Len(RawDates(call.rawData)) :
        RawDates(call.rawData)[i] = featureData.dates[k]

\* C21: with horizon 5, none of the last 5 raw rows appears in the returned
\* feature matrix or target vector, and every returned target equals
\* ln(S[i+5] / S[i]) for the raw index i of its row.
C21_ForwardTargets ==
    FeaturesReturned =>
        /\ Len(featureData.X) = Len(featureData.y)
        /\ \A k \in 1..Len(featureData.y) :
              /\ RawIndex(k) <= Len(call.rawData.SPX) - 5
              /\ featureData.y[k] = mathLog(DblDiv(call.rawData.SPX[RawIndex(k) + 5],
                                                   call.rawData.SPX[RawIndex(k)]))

\* The longest warm-up window: the 63-day volatility is defined from the raw
\* row of index 63 (counted from 0) on.
WarmUp == 63

\* C22: createFeatures discards every row before the first index at which
\* all indicators are defined, and the returned dates start at that index.
C22_WarmUpRowsDiscarded ==
    FeaturesReturned =>
        /\ Len(featureData.dates) = Len(featureData.X)
        /\ \A k \in 1..Len(featureData.X) : RawIndex(k) - 1 >= WarmUp
        /\ (Len(featureData.X) > 0 =>
               featureData.dates[1] = RawDates(call.rawData)[WarmUp + 1])

\* computeRSI has returned.
RsiReturned == pc = "rsi" /\ call # Null /\ call.op = "computeRSI"

\* No price fell over the 14 changes that end at row i (i > 14).
NoLossBefore(prices, i) == \A j \in (i - 13)..i : ~DblLess(prices[j], prices[j - 1])

\* C25: every RSI value is in [0, 100]; it is 100 whenever the average loss
\* over the trailing 14 changes is zero, and 50 in every row before the
\* window has filled.
C25_RsiBounds ==
    RsiReturned =>
        /\ Len(result.value) = Len(call.prices)
        /\ \A i \in 1..Len(call.prices) :
              /\ result.value[i] # NaN
              /\ ~DblLess(result.value[i], DblZero)
              /\ ~DblLess(DblOfInt(100), result.value[i])
              /\ (i <= 14 => result.value[i] = DblOfInt(50))
              /\ (i > 14 /\ NoLossBefore(call.prices, i) =>
                     result.value[i] = DblOfInt(100))

\* A series of 16 rows whose window has filled twice: an RSI strictly
\* between 0 and 100 other than 50, then 100, after fourteen rows of 50.
C25_Witness ==
    /\ RsiReturned
    /\ Len(call.prices) = 16
    /\ result.value[14] = DblOfInt(50)
    /\ result.value[15] \notin {DblZero, DblOfInt(50), DblOfInt(100)}
    /\ NoLossBefore(call.prices, 16)
    /\ result.value[16] = DblOfInt(100)

\* calculateRMSE has returned or thrown.
RmseCalled == pc = "life" /\ call # Null /\ call.op = "calculateRMSE"

\* C23: rmse(x, x) == 0 for every sequence x, the empty sequence included.
C23_RmseOfEqualIsZero ==
    (RmseCalled /\ call.yTrue = call.yPred) =>
        (thrown = "none" /\ result = [value |-> DblZero])

\* A step that is a call of calculateRMSE.
RmseStep == call' # call /\ call' # Null /\ call'.op = "calculateRMSE"

\* C24: calculateRMSE fails with a length-mismatch error whenever the two
\* sequences differ in length, returns no value then, and changes no state
\* of the model instance on either outcome.
C24_RmseLengthMismatch ==
    [][RmseStep =>
          /\ (Len(call'.yTrue) # Len(call'.yPred) =>
                 (thrown' = rmseMessage(cls) /\ result' = Null))
          /\ (Len(call'.yTrue) = Len(call'.yPred) => thrown' = "none")
          /\ UNCHANGED <<gruVars, loaderVars, seqTensors, trainVars, forecastVars,
                         disposedModel, normalizedWith, restVars>>]_vars

\* calculateRMSE has thrown on arrays of different lengths, on an instance
\* that holds a model.
C24_Witness ==
    /\ RmseCalled
    /\ Len(call.yTrue) # Len(call.yPred)
    /\ thrown = rmseMessage(cls)
    /\ result = Null
    /\ model

\* A step in which train was called while no train call was in flight.
TrainCalledWhenIdle == Len(runs') = Len(runs) + 1 /\ InFlight = 0

\* C26: in the guarded orchestrator isTraining is true exactly while a train
\* call is in flight (it is cleared when fit resolves and when fit or its
\* set-up throws), so a train call issued after a completed or failed run is
\* never rejected as already training.
C26_TrainingFlagTracksRun ==
    [][cls = "guarded" =>
          /\ isTraining <=> InFlight > 0
          /\ isTraining' <=> InFlight' > 0
          /\ TrainCalledWhenIdle =>
                /\ runs'[Len(runs')].status # "rejected"
                /\ thrown' # "Model is already training"]_vars

\* A second run of the guarded orchestrator is in flight after a first one
\* that failed.
C26_Witness ==
    /\ cls = "guarded"
    /\ Len(runs) = 2
    /\ runs[1].status = "failed"
    /\ runs[2].status = "fitting"
    /\ isTraining
    /\ fit # Null

\* C27: from the application's UI at most one training run is in flight at
\* any time, and the Train button is never enabled between the start of
\* trainModel and the completion or failure of its train call.
C27_OneRunFromTheUi ==
    pc = "app" =>
        /\ InFlight <= 1
        /\ InFlight > 0 => ~app.trainBtn

\* A training run the application started has run all its epochs and
\* resolved.
AppRunCompleted ==
    /\ pc = "app"
    /\ \E r \in 1..Len(runs) : runs[r].status = "resolved"

\* C28: if trainModel is invoked with datasets loaded and fit runs all its
\* epochs without error, the application eventually sets isModelTrained and
\* enables the Predict button, and the progress callback it supplied has
\* been invoked once per epoch.
C28_TrainingCompletes ==
    AppRunCompleted ~>
        /\ app.isModelTrained
        /\ app.predictBtn
        /\ runs[Len(runs)].status = "resolved" => Len(callbackLog) = runs[Len(runs)].done

\* C29: a training run starts only while the most recent data load
\* succeeded.
C29_TrainingNeedsLoadedData ==
    [][(pc = "app" /\ Len(fitArgs') > Len(fitArgs)) => app.isDataLoaded]_vars
\* The last count elements of a series, in order.
FinalElements(series, count) ==
    [i \in 1..count |-> series[Len(series) - count + i]]

\* C30: after prepareSequences(sequenceLength, trainRatio) has returned,
\* test.originalReturns is as long as test.ys, its k-th element is the raw
\* return whose normalized value (with the stored mean and deviation) is
\* test.ys[k], and lastSequence is the final sequenceLength normalized
\* returns in order.
C30_TestReturnsAndLastSequence ==
    PrepareSequencesReturned =>
        LET test == processedData.test
        IN  /\ Len(test.originalReturns) = Len(test.ys)
            /\ test.ys = normalizeReturns(test.originalReturns, normalizedWith)
            /\ test.originalReturns
                  = FinalElements(data.returns, Len(test.originalReturns))
            /\ processedData.lastSequence
                  = FinalElements(processedData.normalizedReturns,
                                  processedData.sequenceLength)

============================================================================
